------------------------ MODULE IntakePlanningProofs ------------------------
(***************************************************************************)
(* Proofs about intake, for every folder, archive and limit, every number  *)
(* of commands, and every point at which an apply may die.  First the scan *)
(* of ArchiveScan: it accounts for all it opens within its budget.  Then   *)
(* the captures of IntakePlanning: they stay apart, and what is captured a *)
(* second time is up for review.                                           *)
(***************************************************************************)
EXTENDS IntakePlanning, FiniteSetTheorems, WellFoundedInduction, TLAPS

-----------------------------------------------------------------------------
(* A set of naturals with an element has a least one.                      *)
LEMMA LeastNatural ==
  ASSUME NEW S \in SUBSET Nat, S # {}
  PROVE  \E x \in S : \A y \in S : x <= y
<1> DEFINE Less == OpToRel(<, Nat)
<1>1. IsWellFoundedOn(Less, Nat)
  BY NatLessThanWellFounded
<1>2. Less = {pair \in Nat \X Nat : pair[1] < pair[2]}
  BY DEF OpToRel
<1> HIDE DEF Less
<1>3. PICK x \in S : \A y \in S : ~(<< y, x >> \in Less)
  BY <1>1, WFMin
<1>4. ASSUME NEW y \in S PROVE x <= y
  <2>1. x \in Nat /\ y \in Nat
    OBVIOUS
  <2>2. y < x => << y, x >> \in Less
    BY <1>2, <2>1
  <2> QED
    BY <1>3, <2>1, <2>2
<1> QED
  BY <1>4

-----------------------------------------------------------------------------
(* The sum of the sizes of scanned files, over finite sets of indexes.     *)

SizeOf(scanned, i) == Contents[scanned[i].body].size
First(s) == CHOOSE x \in s : TRUE
Rest(s) == s \ {First(s)}

(* The function MapThenSumSet defines by recursion on the subsets of S.    *)
SumFcn(scanned, S) ==
  CHOOSE f : f = [s \in SUBSET S |->
                    IF s = {} THEN 0
                    ELSE Contents[scanned[CHOOSE x \in s : TRUE].body].size
                           + f[s \ {CHOOSE x \in s : TRUE}]]

LEMMA ExpandedIsSum ==
  ASSUME NEW scanned, NEW S
  PROVE  ExpandedBytes(scanned, S) = SumFcn(scanned, S)[S]
BY DEF ExpandedBytes, SumFcn, MapThenSumSet, MapThenFoldSet

Adds(scanned, f, s) == f[s] = IF s = {} THEN 0 ELSE SizeOf(scanned, First(s)) + f[Rest(s)]

(* f is the sum of the sizes of the files of a, for every subset of S.     *)
SumsOver(a, f, S) == f \in [SUBSET S -> Nat] /\ \A s \in SUBSET S : Adds(a, f, s)
Sized(a, S) == \A i \in S : SizeOf(a, i) \in Nat
SplitsAnywhere(a, f, S) == \A s \in SUBSET S : \A i \in s : f[s] = SizeOf(a, i) + f[s \ {i}]
SameSizes(a, b, T) == \A i \in T : SizeOf(a, i) = SizeOf(b, i)

LEMMA RestIsSmaller ==
  ASSUME NEW s, IsFiniteSet(s), s # {}
  PROVE  /\ First(s) \in s /\ IsFiniteSet(Rest(s))
         /\ Cardinality(s) \in Nat \ {0} /\ Cardinality(Rest(s)) = Cardinality(s) - 1
BY FS_RemoveElement, FS_CardinalityType, FS_EmptySet DEF First, Rest

(* A function that adds up correctly exists, so the one chosen does.       *)
LEMMA SumExists ==
  ASSUME NEW scanned, NEW S, IsFiniteSet(S), \A i \in S : SizeOf(scanned, i) \in Nat
  PROVE  \E f \in [SUBSET S -> Nat] : \A s \in SUBSET S : Adds(scanned, f, s)
<1> DEFINE Good(n) == \E f \in [SUBSET S -> Nat] :
                        \A s \in SUBSET S : Cardinality(s) <= n => Adds(scanned, f, s)
           Bad == {n \in Nat : ~Good(n)}
<1>0. \A s \in SUBSET S : IsFiniteSet(s) /\ Cardinality(s) \in Nat
  BY FS_Subset, FS_CardinalityType
<1>1. Good(0)
  <2> DEFINE f == [s \in SUBSET S |-> 0]
  <2>1. \A s \in SUBSET S : Cardinality(s) <= 0 => s = {}
    BY <1>0, FS_EmptySet
  <2>2. f \in [SUBSET S -> Nat] /\ \A s \in SUBSET S : Cardinality(s) <= 0 => Adds(scanned, f, s)
    BY <2>1 DEF Adds
  <2> QED
    BY <2>2
<1>2. ASSUME NEW n \in Nat, Good(n) PROVE Good(n + 1)
  <2>1. PICK f \in [SUBSET S -> Nat] :
          \A s \in SUBSET S : Cardinality(s) <= n => Adds(scanned, f, s)
    BY <1>2
  <2> DEFINE g == [s \in SUBSET S |-> IF Cardinality(s) <= n THEN f[s]
                                      ELSE SizeOf(scanned, First(s)) + f[Rest(s)]]
  <2>2. ASSUME NEW s \in SUBSET S, s # {}
        PROVE  /\ First(s) \in S /\ Rest(s) \in SUBSET S
               /\ Cardinality(Rest(s)) = Cardinality(s) - 1
    BY <1>0, <2>2, RestIsSmaller DEF Rest
  <2>3. \A s \in SUBSET S : ~(Cardinality(s) <= n) => s # {}
    BY <1>0, FS_EmptySet
  <2>4. g \in [SUBSET S -> Nat]
    <3> SUFFICES ASSUME NEW s \in SUBSET S PROVE g[s] \in Nat
      OBVIOUS
    <3>1. CASE Cardinality(s) <= n
      BY <3>1
    <3>2. CASE ~(Cardinality(s) <= n)
      BY <3>2, <2>2, <2>3
    <3> QED
      BY <3>1, <3>2
  <2>5. ASSUME NEW s \in SUBSET S, Cardinality(s) <= n + 1
        PROVE  Adds(scanned, g, s)
    <3>1. CASE s = {}
      <4>1. Cardinality(s) <= n
        BY <3>1, FS_EmptySet
      <4> QED
        BY <4>1, <3>1, <2>1 DEF Adds
    <3>2. CASE s # {}
      <4>1. /\ Rest(s) \in SUBSET S /\ Cardinality(Rest(s)) = Cardinality(s) - 1
            /\ Cardinality(s) \in Nat
        BY <3>2, <2>2, <1>0
      <4>2. g[Rest(s)] = f[Rest(s)]
        BY <4>1, <2>5
      <4>3. g[s] = SizeOf(scanned, First(s)) + f[Rest(s)]
        BY <3>2, <2>1 DEF Adds
      <4> HIDE DEF g
      <4> QED
        BY <3>2, <4>2, <4>3 DEF Adds
    <3> QED
      BY <3>1, <3>2
  <2> HIDE DEF g
  <2> QED
    BY <2>4, <2>5
<1> HIDE DEF Good
<1>3. Bad = {}
  <2> SUFFICES ASSUME Bad # {} PROVE FALSE
    OBVIOUS
  <2>1. PICK n \in Bad : \A m \in Bad : n <= m
    BY LeastNatural
  <2>2. n # 0 /\ n \in Nat
    BY <1>1
  <2>3. Good(n - 1)
    BY <2>1, <2>2
  <2>4. Good(n)
    BY <1>2, <2>2, <2>3
  <2> QED
    BY <2>4
<1>4. Good(Cardinality(S))
  BY <1>3, <1>0
<1>5. \A s \in SUBSET S : Cardinality(s) <= Cardinality(S)
  BY FS_Subset
<1> QED
  BY <1>4, <1>5 DEF Good

LEMMA SumIsDefined ==
  ASSUME NEW scanned, NEW S, IsFiniteSet(S), \A i \in S : SizeOf(scanned, i) \in Nat
  PROVE  SumsOver(scanned, SumFcn(scanned, S), S)
<1> DEFINE Plus(f) == [s \in SUBSET S |->
                    IF s = {} THEN 0
                    ELSE Contents[scanned[CHOOSE x \in s : TRUE].body].size
                           + f[s \ {CHOOSE x \in s : TRUE}]]
           F == SumFcn(scanned, S)
<1>1. PICK f \in [SUBSET S -> Nat] : \A s \in SUBSET S : Adds(scanned, f, s)
  BY SumExists
<1>2. f = Plus(f)
  BY <1>1 DEF Adds, SizeOf, First, Rest
<1>3. F = Plus(F)
  BY <1>2 DEF SumFcn
<1>4. ASSUME NEW s \in SUBSET S PROVE Adds(scanned, F, s)
  <2>1. F[s] = Plus(F)[s]
    BY <1>3
  <2> QED
    BY <2>1 DEF Adds, SizeOf, First, Rest
<1>5. \A s \in SUBSET S : F[s] \in Nat
  <2> DEFINE Bad == {n \in Nat : \E s \in SUBSET S : Cardinality(s) = n /\ F[s] \notin Nat}
  <2>1. /\ Bad \in SUBSET Nat
        /\ \A n \in Bad : \E s \in SUBSET S : Cardinality(s) = n /\ F[s] \notin Nat
        /\ \A s \in SUBSET S : F[s] \notin Nat => Cardinality(s) \in Bad
    BY FS_Subset, FS_CardinalityType
  <2> HIDE DEF Bad, F
  <2>2. SUFFICES ASSUME Bad # {} PROVE FALSE
    BY <2>1
  <2>3. PICK n \in Bad : \A m \in Bad : n <= m
    BY <2>1, <2>2, LeastNatural
  <2>4. PICK s \in SUBSET S : Cardinality(s) = n /\ F[s] \notin Nat
    BY <2>1, <2>3
  <2>5. s # {}
    BY <1>4, <2>4 DEF Adds
  <2>6. First(s) \in S /\ Rest(s) \in SUBSET S /\ n \in Nat \ {0} /\ Cardinality(Rest(s)) = n - 1
    BY <2>4, <2>5, FS_Subset, RestIsSmaller DEF Rest
  <2>7. F[Rest(s)] \in Nat
    BY <2>1, <2>3, <2>6
  <2> QED
    BY <1>4, <2>4, <2>5, <2>6, <2>7 DEF Adds
<1>6. F = [s \in SUBSET S |-> F[s]]
  BY <1>3
<1> HIDE DEF F
<1> QED
  BY <1>4, <1>5, <1>6 DEF F, SumsOver

(* Sums over the same sizes agree.                                         *)
LEMMA SumsAgree ==
  ASSUME NEW a, NEW b, NEW S, NEW T \in SUBSET S, IsFiniteSet(S), NEW f, NEW g,
         SumsOver(a, f, S), SumsOver(b, g, T), SameSizes(a, b, T)
  PROVE  \A s \in SUBSET T : f[s] = g[s]
<1> USE DEF SumsOver, SameSizes
<1> DEFINE Bad == {n \in Nat : \E s \in SUBSET T : Cardinality(s) = n /\ f[s] # g[s]}
<1>1. /\ Bad \in SUBSET Nat
      /\ \A n \in Bad : \E s \in SUBSET T : Cardinality(s) = n /\ f[s] # g[s]
      /\ \A s \in SUBSET T : f[s] # g[s] => Cardinality(s) \in Bad
  BY FS_Subset, FS_CardinalityType
<1> HIDE DEF Bad
<1>2. SUFFICES ASSUME Bad # {} PROVE FALSE
  BY <1>1
<1>3. PICK n \in Bad : \A m \in Bad : n <= m
  BY <1>1, <1>2, LeastNatural
<1>4. PICK s \in SUBSET T : Cardinality(s) = n /\ f[s] # g[s]
  BY <1>1, <1>3
<1>5. s \in SUBSET S
  OBVIOUS
<1>6. s # {}
  BY <1>4, <1>5 DEF Adds
<1>7. First(s) \in T /\ Rest(s) \in SUBSET T /\ n \in Nat \ {0} /\ Cardinality(Rest(s)) = n - 1
  BY <1>4, <1>5, <1>6, FS_Subset, RestIsSmaller DEF Rest
<1>8. f[Rest(s)] = g[Rest(s)]
  BY <1>1, <1>3, <1>7
<1> QED
  BY <1>4, <1>5, <1>6, <1>7, <1>8 DEF Adds

(* Whatever element is taken out first, the sum is the same.               *)
LEMMA SumSplits ==
  ASSUME NEW a, NEW S, IsFiniteSet(S), NEW f, SumsOver(a, f, S), Sized(a, S)
  PROVE  SplitsAnywhere(a, f, S)
<1> USE DEF SumsOver, Sized, SplitsAnywhere
<1> DEFINE Splits(s) == \A i \in s : f[s] = SizeOf(a, i) + f[s \ {i}]
           Bad == {n \in Nat : \E s \in SUBSET S : Cardinality(s) = n /\ ~Splits(s)}
<1> HIDE DEF Splits
<1>1. /\ Bad \in SUBSET Nat
      /\ \A n \in Bad : \E s \in SUBSET S : Cardinality(s) = n /\ ~Splits(s)
      /\ \A s \in SUBSET S : ~Splits(s) => Cardinality(s) \in Bad
  BY FS_Subset, FS_CardinalityType
<1> HIDE DEF Bad
<1>2. SUFFICES ASSUME Bad # {} PROVE FALSE
  BY <1>1 DEF Splits
<1>3. PICK n \in Bad : \A m \in Bad : n <= m
  BY <1>1, <1>2, LeastNatural
<1>4. PICK s \in SUBSET S : Cardinality(s) = n /\ ~Splits(s)
  BY <1>1, <1>3
<1>5. PICK i \in s : f[s] # SizeOf(a, i) + f[s \ {i}]
  BY <1>4 DEF Splits
<1> DEFINE h == First(s)
<1>6. h \in s /\ n \in Nat \ {0} /\ Cardinality(Rest(s)) = n - 1 /\ Rest(s) \in SUBSET S
  BY <1>4, <1>5, FS_Subset, RestIsSmaller DEF Rest
<1>7. f[s] = SizeOf(a, h) + f[Rest(s)]
  BY <1>5 DEF Adds
<1>8. h # i
  BY <1>5, <1>7 DEF Rest
<1>9. IsFiniteSet(s) /\ s \ {i} \in SUBSET S /\ Cardinality(s \ {i}) = n - 1
  BY <1>4, FS_Subset, FS_RemoveElement
<1>10. Splits(Rest(s)) /\ Splits(s \ {i})
  <2>1. n - 1 \notin Bad
    BY <1>1, <1>3
  <2> QED
    BY <2>1, <1>1, <1>6, <1>9
<1>11. /\ f[Rest(s)] = SizeOf(a, i) + f[Rest(s) \ {i}]
       /\ f[s \ {i}] = SizeOf(a, h) + f[(s \ {i}) \ {h}]
  BY <1>6, <1>8, <1>10 DEF Rest, Splits
<1>12. Rest(s) \ {i} = (s \ {i}) \ {h} /\ Rest(s) \ {i} \in SUBSET S
  BY DEF Rest
<1>13. /\ f[Rest(s) \ {i}] \in Nat /\ SizeOf(a, i) \in Nat /\ SizeOf(a, h) \in Nat
  BY <1>6, <1>12
<1> DEFINE y == f[Rest(s) \ {i}]
<1>14. f[s] = SizeOf(a, h) + (SizeOf(a, i) + y) /\ f[s \ {i}] = SizeOf(a, h) + y
  BY <1>7, <1>11, <1>12
<1> HIDE DEF h, y
<1> QED
  BY <1>5, <1>13, <1>14 DEF y

(* One more file adds its size.                                            *)
LEMMA OneMoreFile ==
  ASSUME NEW a, NEW b, NEW T, NEW n, n \notin T, IsFiniteSet(T),
         \A i \in T : SizeOf(a, i) \in Nat /\ SizeOf(b, i) = SizeOf(a, i),
         SizeOf(b, n) \in Nat
  PROVE  ExpandedBytes(b, T \cup {n}) = ExpandedBytes(a, T) + SizeOf(b, n)
<1> DEFINE S == T \cup {n}
           f == SumFcn(b, S)
           g == SumFcn(a, T)
<1>1. IsFiniteSet(S) /\ T \in SUBSET S /\ S \in SUBSET S /\ n \in S /\ T \in SUBSET T
  BY FS_AddElement
<1>2. SumsOver(b, f, S) /\ Sized(b, S)
  BY <1>1, SumIsDefined DEF Sized
<1>3. SumsOver(a, g, T) /\ SameSizes(b, a, T)
  BY SumIsDefined DEF SameSizes
<1> HIDE DEF f, g
<1>4. f[S] = SizeOf(b, n) + f[S \ {n}]
  <2> HIDE DEF S
  <2>1. SplitsAnywhere(b, f, S)
    BY <1>1, <1>2, SumSplits
  <2> QED
    BY <2>1, <1>1 DEF SplitsAnywhere
<1>5. f[T] = g[T]
  <2> HIDE DEF S
  <2>1. \A s \in SUBSET T : f[s] = g[s]
    BY <1>1, <1>2, <1>3, SumsAgree
  <2> QED
    BY <2>1, <1>1
<1>6. S \ {n} = T
  OBVIOUS
<1>7. g[T] \in Nat
  BY <1>1, <1>3 DEF SumsOver
<1>8. ExpandedBytes(b, S) = f[S] /\ ExpandedBytes(a, T) = g[T]
  BY ExpandedIsSum DEF f, g
<1> HIDE DEF S
<1>9. ExpandedBytes(b, S) = ExpandedBytes(a, T) + SizeOf(b, n)
  <2>1. SizeOf(b, n) \in Nat
    OBVIOUS
  <2>2. f[S] = SizeOf(b, n) + g[T]
    BY <1>4, <1>5, <1>6
  <2>3. SizeOf(b, n) + g[T] = g[T] + SizeOf(b, n)
    BY <1>7, <2>1
  <2> QED
    BY <1>8, <2>2, <2>3, Zenon
<1> QED
  BY <1>9 DEF S

LEMMA SameFiles ==
  ASSUME NEW a, NEW b, NEW T, IsFiniteSet(T),
         \A i \in T : SizeOf(a, i) \in Nat /\ SizeOf(b, i) = SizeOf(a, i)
  PROVE  ExpandedBytes(b, T) = ExpandedBytes(a, T) /\ ExpandedBytes(a, T) \in Nat
<1> DEFINE f == SumFcn(b, T)
           g == SumFcn(a, T)
<1>1. SumsOver(b, f, T) /\ SumsOver(a, g, T) /\ SameSizes(b, a, T) /\ T \in SUBSET T
  BY SumIsDefined DEF SameSizes
<1> HIDE DEF f, g
<1>2. \A s \in SUBSET T : f[s] = g[s]
  BY <1>1, SumsAgree
<1>3. f[T] = g[T] /\ g[T] \in Nat
  BY <1>1, <1>2 DEF SumsOver
<1> QED
  BY <1>3, ExpandedIsSum DEF f, g

LEMMA NoFiles ==
  ASSUME NEW a
  PROVE  ExpandedBytes(a, {}) = 0
BY SumIsDefined, ExpandedIsSum, FS_EmptySet DEF Adds, SumsOver

-----------------------------------------------------------------------------
(* Sequences.                                                              *)

LEMMA AppendIs ==
  ASSUME NEW S, NEW s \in Seq(S), NEW x \in S
  PROVE  /\ Append(s, x) \in Seq(S) /\ Len(Append(s, x)) = Len(s) + 1 /\ Len(s) \in Nat
         /\ DOMAIN Append(s, x) = DOMAIN s \cup {Len(s) + 1} /\ Len(s) + 1 \notin DOMAIN s
         /\ \A i \in DOMAIN s : Append(s, x)[i] = s[i]
         /\ Append(s, x)[Len(s) + 1] = x
OBVIOUS

LEMMA FrontIs ==
  ASSUME NEW S, NEW s \in Seq(S), s # <<>>
  PROVE  /\ Front(s) \in Seq(S) /\ Len(Front(s)) = Len(s) - 1 /\ Len(s) \in Nat \ {0}
         /\ DOMAIN Front(s) = 1 .. Len(s) - 1
         /\ \A i \in 1 .. Len(s) - 1 : Front(s)[i] = s[i]
         /\ Last(s) = s[Len(s)] /\ Last(s) \in S
<1>1. Len(s) \in Nat \ {0}
  OBVIOUS
<1>2. Front(s) = [i \in 1 .. Len(s) - 1 |-> s[i]]
  BY <1>1 DEF Front
<1>3. \A i \in 1 .. Len(s) - 1 : s[i] \in S
  OBVIOUS
<1> QED
  BY <1>1, <1>2, <1>3 DEF Last

LEMMA TailIs ==
  ASSUME NEW S, NEW s \in Seq(S), s # <<>>
  PROVE  /\ Head(s) = s[1] /\ 1 \in DOMAIN s /\ Head(s) \in S /\ Tail(s) \in Seq(S)
         /\ \A i \in DOMAIN Tail(s) : i + 1 \in DOMAIN s /\ i \in Nat /\ Tail(s)[i] = s[i + 1]
         /\ Range(s) = {Head(s)} \cup Range(Tail(s))
<1>1. /\ Head(s) = s[1] /\ Tail(s) \in Seq(S) /\ Head(s) \in S /\ Len(s) \in Nat \ {0}
      /\ DOMAIN s = 1 .. Len(s) /\ DOMAIN Tail(s) = 1 .. Len(s) - 1
      /\ \A i \in DOMAIN Tail(s) : i + 1 \in DOMAIN s /\ Tail(s)[i] = s[i + 1]
  OBVIOUS
<1>2. ASSUME NEW y \in Range(s) PROVE y \in {Head(s)} \cup Range(Tail(s))
  <2>1. PICK i \in DOMAIN s : y = s[i]
    BY <1>2 DEF Range
  <2>2. CASE i = 1
    BY <1>1, <2>1, <2>2
  <2>3. CASE i # 1
    <3>1. i - 1 \in DOMAIN Tail(s) /\ Tail(s)[i - 1] = s[i]
      BY <1>1, <2>1, <2>3
    <3> QED
      BY <2>1, <3>1 DEF Range
  <2> QED
    BY <2>2, <2>3
<1>3. Range(Tail(s)) \subseteq Range(s) /\ Head(s) \in Range(s)
  BY <1>1 DEF Range
<1> QED
  BY <1>1, <1>2, <1>3

LEMMA RangeHolds ==
  ASSUME NEW S, NEW s \in Seq(S)
  PROVE  Range(s) \subseteq S /\ s \in Seq(Range(s))
BY DEF Range

LEMMA AppendsDiffer ==
  ASSUME NEW S, NEW p \in Seq(S), NEW q \in Seq(S), NEW x \in S, NEW y \in S,
         Append(p, x) = Append(q, y)
  PROVE  p = q /\ x = y
<1>1. /\ Len(p) \in Nat /\ Len(q) \in Nat
      /\ Len(Append(p, x)) = Len(p) + 1 /\ Len(Append(q, y)) = Len(q) + 1
  BY AppendIs
<1>2. Len(p) = Len(q)
  BY <1>1
<1>3. x = y
  BY <1>2, AppendIs
<1>4. \A i \in 1 .. Len(p) : p[i] = q[i]
  BY <1>2, AppendIs
<1> QED
  BY <1>2, <1>3, <1>4

-----------------------------------------------------------------------------
(* What the state of a scan is made of.                                    *)

Members == UNION {Range(Contents[c].members) : c \in DOMAIN Contents}
Listed == UNION {Range(d.files) : d \in Drops \cup Series}
Segments == {m.path : m \in Members} \cup {f.path : f \in Listed}
Exts == {m.ext : m \in Members} \cup {f.ext : f \in Listed} \cup {"zip", "tar"}
Kinds == {"archive_too_large", "invalid_archive", "archive_depth_limit_exceeded",
          "unsupported_archive_type", "unsafe_archive_member_path",
          "duplicate_archive_member_path", "archive_member_limit_exceeded",
          "encrypted_archive_member", "unsupported_archive_compression",
          "unsupported_archive_member_type", "archive_member_too_large",
          "archive_expanded_size_limit_exceeded", "archive_member_read_failed"}

Scanned == [path : Seq(Segments), ext : Exts, body : DOMAIN Contents]
Frames == [path : Seq(Segments), depth : Nat, seen : SUBSET (Segments \X Exts),
           rest : Seq(Members)]
Issues == [kind : Kinds, path : Seq(Segments), ext : Exts]

ScanTypeOK ==
  /\ listing \in Seq(Listed) /\ files \in Seq(Scanned) /\ issues \in Seq(Issues)
  /\ stack \in Seq(Frames)
  /\ opened \in SUBSET [path : Seq(Segments), body : DOMAIN Contents]
  /\ budget \in [members : Nat, bytes : Nat]

LEMMA MemberIs ==
  ASSUME NEW m \in Members
  PROVE  m.path \in Segments /\ m.ext \in Exts /\ m.body \in DOMAIN Contents
BY ContentsAssumption DEF Members, Segments, Exts

LEMMA ListedIs ==
  ASSUME NEW f \in Listed
  PROVE  f.path \in Segments /\ f.ext \in Exts /\ f.body \in DOMAIN Contents
BY DropsAssumption DEF Listed, Segments, Exts

LEMMA ContentsAre ==
  ASSUME NEW c \in DOMAIN Contents
  PROVE  Contents[c].size \in Nat /\ Contents[c].members \in Seq(Members)
<1>1. Contents[c].members \in Seq(Range(Contents[c].members))
  BY ContentsAssumption
<1>2. Range(Contents[c].members) \subseteq Members
  BY DEF Members
<1> QED
  BY <1>1, <1>2, ContentsAssumption

LEMMA FolderIs ==
  ASSUME NEW d \in Drops \cup Series
  PROVE  d.files \in Seq(Listed)
<1>1. d.files \in Seq(Range(d.files)) /\ Range(d.files) \subseteq Listed
  BY DropsAssumption DEF Listed
<1> QED
  BY <1>1

-----------------------------------------------------------------------------
(* What one step of a scan does.                                           *)

Named(s, path, ext) == \E i \in DOMAIN s : s[i].path = path /\ s[i].ext = ext
Keeps(s, t) == DOMAIN s \subseteq DOMAIN t /\ \A i \in DOMAIN s : t[i] = s[i]

LEMMA OneMoreIssue ==
  ASSUME NEW s \in Seq(Issues), NEW kind \in Kinds, NEW path \in Seq(Segments), NEW ext \in Exts
  PROVE  LET t == Append(s, Issue(kind, path, ext)) IN
         t \in Seq(Issues) /\ Keeps(s, t) /\ Named(t, path, ext)
<1> DEFINE x == Issue(kind, path, ext)
           t == Append(s, x)
<1>1. x \in Issues /\ x.path = path /\ x.ext = ext
  BY DEF Issue, Issues
<1> HIDE DEF x
<1>2. /\ t \in Seq(Issues) /\ Len(s) + 1 \in DOMAIN t /\ t[Len(s) + 1] = x
      /\ DOMAIN s \subseteq DOMAIN t /\ \A i \in DOMAIN s : t[i] = s[i]
  BY <1>1, AppendIs
<1> HIDE DEF t
<1>3. Named(t, path, ext)
  BY <1>1, <1>2 DEF Named
<1>4. Keeps(s, t)
  BY <1>2 DEF Keeps
<1> QED
  BY <1>2, <1>3, <1>4 DEF t, x

OpenedFrame(path, depth, body) ==
  [path |-> path, depth |-> depth, seen |-> {}, rest |-> Contents[body].members]

Opens(path, depth, body, frames, reported) ==
  /\ stack' = Append(frames, OpenedFrame(path, depth, body))
  /\ issues' = reported
  /\ opened' = opened \cup {[path |-> path, body |-> body]}

Refuses(path, frames, reported) ==
  /\ stack' = frames /\ opened' = opened
  /\ Keeps(reported, issues') /\ Named(issues', path, "zip")

LEMMA OpenedFrameIs ==
  ASSUME NEW path \in Seq(Segments), NEW depth \in Nat, NEW body \in DOMAIN Contents
  PROVE  /\ OpenedFrame(path, depth, body) \in Frames
         /\ OpenedFrame(path, depth, body).path = path
         /\ OpenedFrame(path, depth, body).rest = Contents[body].members
BY ContentsAre DEF OpenedFrame, Frames

LEMMA OpenStep ==
  ASSUME NEW path \in Seq(Segments), NEW body \in DOMAIN Contents, NEW depth \in Nat,
         NEW frames \in Seq(Frames), NEW reported \in Seq(Issues), ScanTypeOK,
         OpenArchive(path, body, depth, frames, reported)
  PROVE  /\ issues' \in Seq(Issues) /\ stack' \in Seq(Frames)
         /\ opened' \in SUBSET [path : Seq(Segments), body : DOMAIN Contents]
         /\ Opens(path, depth, body, frames, reported) \/ Refuses(path, frames, reported)
<1> DEFINE why == archive_refusal(body, depth)
<1>1. why \in Kinds \cup {""}
  BY DEF archive_refusal, Kinds
<1>2. "zip" \in Exts
  BY DEF Exts
<1>3. CASE why # ""
  <2>1. /\ stack' = frames /\ opened' = opened /\ why \in Kinds
        /\ issues' = Append(reported, Issue(why, path, "zip"))
    BY <1>1, <1>3 DEF OpenArchive
  <2> HIDE DEF why
  <2>2. issues' \in Seq(Issues) /\ Keeps(reported, issues') /\ Named(issues', path, "zip")
    BY <1>2, <2>1, OneMoreIssue
  <2> QED
    BY <2>1, <2>2 DEF Refuses, ScanTypeOK
<1>4. CASE why = ""
  <2>1. Opens(path, depth, body, frames, reported)
    BY <1>4 DEF OpenArchive, Opens, OpenedFrame
  <2>2. stack' \in Seq(Frames)
    BY <2>1, OpenedFrameIs, AppendIs DEF Opens
  <2> QED
    BY <2>1, <2>2 DEF Opens, ScanTypeOK
<1> QED
  BY <1>3, <1>4

(* A file of the folder is taken, and opened when it is an archive.        *)
TakesFile(f) ==
  LET path == <<f.path>> IN
  /\ stack = <<>> /\ listing # <<>> /\ f = Head(listing) /\ listing' = Tail(listing)
  /\ files' = Append(files, ScannedFile(path, f.ext, f.body))
  /\ budget' = budget
  /\ \/ f.ext = "zip" /\ (Opens(path, 0, f.body, <<>>, issues) \/ Refuses(path, <<>>, issues))
     \/ f.ext # "zip" /\ stack' = <<>> /\ opened' = opened /\ Keeps(issues, issues')

LEMMA ScannedIs ==
  ASSUME NEW path \in Seq(Segments), NEW ext \in Exts, NEW body \in DOMAIN Contents
  PROVE  LET x == ScannedFile(path, ext, body) IN
         x \in Scanned /\ x.path = path /\ x.ext = ext /\ x.body = body
BY DEF ScannedFile, Scanned

LEMMA KeepsItself ==
  ASSUME NEW s
  PROVE  Keeps(s, s)
BY DEF Keeps

LEMMA FileStep ==
  ASSUME ScanTypeOK, ScanFile
  PROVE  ScanTypeOK' /\ TakesFile(Head(listing)) /\ Head(listing) \in Listed
<1> DEFINE f == Head(listing)
           path == <<f.path>>
<1>1. listing \in Seq(Listed) /\ listing # <<>> /\ stack = <<>>
  BY DEF ScanTypeOK, ScanFile
<1>2. f \in Listed /\ Tail(listing) \in Seq(Listed)
  BY <1>1, TailIs
<1>3. /\ listing' = Tail(listing) /\ files' = Append(files, ScannedFile(path, f.ext, f.body))
      /\ budget' = budget
      /\ f.ext = "zip" => OpenArchive(path, f.body, 0, <<>>, issues)
      /\ f.ext = "tar" => /\ issues' = Append(issues,
                               Issue("unsupported_archive_type", path, f.ext))
                          /\ UNCHANGED <<stack, opened>>
      /\ f.ext # "zip" /\ f.ext # "tar" => UNCHANGED <<stack, issues, opened>>
  BY DEF ScanFile
<1> HIDE DEF f
<1>4. path \in Seq(Segments) /\ f.ext \in Exts /\ f.body \in DOMAIN Contents
  BY <1>2, ListedIs
<1> HIDE DEF path
<1>5. files' \in Seq(Scanned)
  BY <1>3, <1>4, ScannedIs, AppendIs DEF ScanTypeOK
<1>6. issues \in Seq(Issues) /\ <<>> \in Seq(Frames) /\ 0 \in Nat
  BY DEF ScanTypeOK
<1>7. CASE f.ext = "zip"
  <2>1. OpenArchive(path, f.body, 0, <<>>, issues)
    BY <1>3, <1>7
  <2>2. /\ issues' \in Seq(Issues) /\ stack' \in Seq(Frames)
        /\ opened' \in SUBSET [path : Seq(Segments), body : DOMAIN Contents]
        /\ Opens(path, 0, f.body, <<>>, issues) \/ Refuses(path, <<>>, issues)
    BY <1>4, <1>6, <2>1, OpenStep
  <2> QED
    BY <1>1, <1>2, <1>3, <1>5, <1>7, <2>2 DEF ScanTypeOK, TakesFile, f, path
<1>8. CASE f.ext # "zip"
  <2>1. stack' = <<>> /\ opened' = opened
    BY <1>1, <1>3, <1>8
  <2>2. issues' \in Seq(Issues) /\ Keeps(issues, issues')
    <3>1. "unsupported_archive_type" \in Kinds
      BY DEF Kinds
    <3>2. CASE f.ext = "tar"
      BY <1>3, <1>4, <1>6, <3>1, <3>2, OneMoreIssue
    <3>3. CASE f.ext # "tar"
      BY <1>3, <1>6, <1>8, <3>3, KeepsItself
    <3> QED
      BY <3>2, <3>3
  <2> QED
    BY <1>1, <1>2, <1>3, <1>5, <1>6, <1>8, <2>1, <2>2 DEF ScanTypeOK, TakesFile, f, path
<1> QED
  BY <1>7, <1>8

-----------------------------------------------------------------------------
(* The innermost open archive and the member of it that is next.           *)
Top == stack[Len(stack)]
Member == Head(Top.rest)
MemberPlace == Append(Top.path, Member.path)

(* The frames with the innermost one moved on by a member.                     *)
MovesOn(frames, moved) ==
  /\ frames \in Seq(Frames) /\ Len(frames) = Len(stack) /\ frames[Len(stack)] = moved
  /\ \A k \in 1 .. Len(stack) - 1 : frames[k] = stack[k]
  /\ moved \in Frames /\ moved.path = Top.path /\ Top.seen \subseteq moved.seen

PassesMember(frames, moved) ==
  /\ Member.attr = "dir" /\ moved.rest = Tail(Top.rest)
  /\ stack' = frames /\ files' = files /\ issues' = issues
  /\ budget' = budget /\ opened' = opened

RefusesMember(frames, moved) ==
  /\ \/ Named(issues', Top.path, "zip") /\ moved.rest \in {<<>>, Tail(Top.rest)}
     \/ Named(issues', MemberPlace, Member.ext) /\ moved.rest = Tail(Top.rest)
  /\ Keeps(issues, issues')
  /\ stack' = frames /\ files' = files /\ budget' = budget /\ opened' = opened

ReadsMember(frames, moved) ==
  LET m == Member size == Contents[m.body].size IN
  /\ <<m.path, m.ext>> \notin Top.seen /\ <<m.path, m.ext>> \in moved.seen
  /\ moved.rest = Tail(Top.rest)
  /\ files' = Append(files, ScannedFile(MemberPlace, m.ext, m.body))
  /\ budget.members < MaxMemberCount /\ budget.bytes + size <= MaxTotalExpanded
  /\ budget' = [members |-> budget.members + 1, bytes |-> budget.bytes + size]
  /\ \/ m.ext = "zip" /\ (\/ \E depth \in Nat : Opens(MemberPlace, depth, m.body, frames, issues)
                          \/ Refuses(MemberPlace, frames, issues))
     \/ m.ext # "zip" /\ stack' = frames /\ issues' = issues /\ opened' = opened

LEMMA TopIs ==
  ASSUME ScanTypeOK, stack # <<>>
  PROVE  /\ Len(stack) \in Nat \ {0} /\ DOMAIN stack = 1 .. Len(stack)
         /\ Last(stack) = Top /\ Top \in Frames /\ stack \in Seq(Frames)
         /\ Front(stack) \in Seq(Frames) /\ Len(Front(stack)) = Len(stack) - 1
         /\ \A k \in 1 .. Len(stack) - 1 : Front(stack)[k] = stack[k]
<1>1. stack \in Seq(Frames)
  BY DEF ScanTypeOK
<1>2. DOMAIN stack = 1 .. Len(stack)
  BY <1>1
<1> QED
  BY <1>1, <1>2, FrontIs DEF Top

LEMMA MovingOn ==
  ASSUME ScanTypeOK, stack # <<>>, NEW rest \in Seq(Members), NEW seen \in SUBSET (Segments \X Exts),
         Top.seen \subseteq seen
  PROVE  LET moved == [Top EXCEPT !.rest = rest, !.seen = seen] IN
         /\ MovesOn(Append(Front(stack), moved), moved)
         /\ moved.rest = rest /\ moved.seen = seen
<1> DEFINE moved == [Top EXCEPT !.rest = rest, !.seen = seen]
           frames == Append(Front(stack), moved)
<1>1. Top \in Frames
  BY TopIs
<1>2. moved \in Frames /\ moved.path = Top.path /\ moved.rest = rest /\ moved.seen = seen
  BY <1>1 DEF Frames
<1> HIDE DEF moved
<1>3. /\ frames \in Seq(Frames) /\ Len(frames) = Len(stack) /\ frames[Len(stack)] = moved
      /\ \A k \in 1 .. Len(stack) - 1 : frames[k] = stack[k]
  <2>1. /\ Front(stack) \in Seq(Frames) /\ Len(Front(stack)) = Len(stack) - 1
        /\ Len(stack) \in Nat \ {0}
        /\ \A k \in 1 .. Len(stack) - 1 : Front(stack)[k] = stack[k]
    BY TopIs
  <2> HIDE DEF frames
  <2>2. /\ frames \in Seq(Frames) /\ Len(frames) = Len(Front(stack)) + 1
        /\ frames[Len(Front(stack)) + 1] = moved
        /\ \A k \in DOMAIN Front(stack) : frames[k] = Front(stack)[k]
    BY <1>2, <2>1, AppendIs DEF frames
  <2>3. DOMAIN Front(stack) = 1 .. Len(stack) - 1
    BY <2>1
  <2>4. Len(Front(stack)) + 1 = Len(stack)
    BY <2>1
  <2>5. \A k \in 1 .. Len(stack) - 1 : frames[k] = stack[k]
    BY <2>1, <2>2, <2>3
  <2> QED
    BY <2>2, <2>4, <2>5
<1> QED
  BY <1>2, <1>3 DEF MovesOn, moved

LEMMA MemberStep ==
  ASSUME ScanTypeOK, ScanMember
  PROVE  /\ stack # <<>> /\ Top.rest # <<>> /\ listing' = listing /\ ScanTypeOK'
         /\ Member \in Members /\ MemberPlace \in Seq(Segments)
         /\ \E frames, moved : /\ MovesOn(frames, moved)
                              /\ \/ PassesMember(frames, moved)
                                 \/ RefusesMember(frames, moved)
                                 \/ ReadsMember(frames, moved)
<1> DEFINE a == Top
           m == Member
           path == MemberPlace
           unresolved == resolve_archive_member(a, m)
           failed == IF unresolved # "" THEN unresolved ELSE read_archive_member(m)
           at == IF failed \in OfArchive THEN a.path ELSE path
           ext == IF failed \in OfArchive THEN "zip" ELSE m.ext
           rest == IF failed \in EndsArchive THEN <<>> ELSE Tail(a.rest)
           seen == IF unresolved = "" THEN a.seen \cup {<<m.path, m.ext>>} ELSE a.seen
           moved == [a EXCEPT !.rest = rest, !.seen = seen]
           frames == Append(Front(stack), moved)
<1>1. /\ stack # <<>> /\ Top.rest # <<>> /\ listing' = listing /\ Last(stack) = Top
      /\ Top \in Frames /\ Top.rest \in Seq(Members) /\ Top.path \in Seq(Segments)
      /\ Top.depth \in Nat /\ Top.seen \in SUBSET (Segments \X Exts)
  BY TopIs DEF ScanMember, Frames
<1>2. /\ Member \in Members /\ Tail(Top.rest) \in Seq(Members)
  BY <1>1, TailIs DEF Member
<1>3. /\ m.path \in Segments /\ m.ext \in Exts /\ m.body \in DOMAIN Contents
      /\ path \in Seq(Segments)
  BY <1>1, <1>2, MemberIs, AppendIs DEF MemberPlace
<1>4. rest \in Seq(Members) /\ seen \in SUBSET (Segments \X Exts) /\ Top.seen \subseteq seen
  <2>1. <<>> \in Seq(Members) /\ <<m.path, m.ext>> \in Segments \X Exts
    BY <1>3
  <2> HIDE DEF unresolved, failed, m
  <2> QED
    BY <1>1, <1>2, <2>1
<1>5. MovesOn(frames, moved) /\ moved.rest = rest /\ moved.seen = seen
  <2> HIDE DEF rest, seen
  <2> QED
    BY <1>1, <1>4, MovingOn
<1>6. m.attr = "dir" =>
        /\ stack' = Append(Front(stack), [a EXCEPT !.rest = Tail(a.rest)])
        /\ UNCHANGED <<files, issues, budget, opened>>
  BY <1>1 DEF ScanMember, Member
<1>7. m.attr # "dir" /\ failed # "" =>
        /\ issues' = Append(issues, Issue(failed, at, ext)) /\ stack' = frames
        /\ UNCHANGED <<files, budget, opened>>
  BY <1>1 DEF ScanMember, Member, MemberPlace
<1>8. m.attr # "dir" /\ failed = "" =>
        /\ budget' = [members |-> budget.members + 1,
                      bytes |-> budget.bytes + Contents[m.body].size]
        /\ files' = Append(files, ScannedFile(path, m.ext, m.body))
        /\ m.ext = "zip" => OpenArchive(path, m.body, a.depth + 1, frames, issues)
        /\ m.ext # "zip" => stack' = frames /\ UNCHANGED <<issues, opened>>
  BY <1>1 DEF ScanMember, Member, MemberPlace
<1>9. unresolved = "" => <<m.path, m.ext>> \notin a.seen
  BY DEF resolve_archive_member
<1>10. failed \in Kinds \cup {""}
  BY DEF resolve_archive_member, read_archive_member, handle_archive_member_limits, Kinds
<1> HIDE DEF a, m, path, rest, seen
<1> DEFINE typed == stack' \in Seq(Frames) /\ issues' \in Seq(Issues) /\ files' \in Seq(Scanned)
                     /\ opened' \in SUBSET [path : Seq(Segments), body : DOMAIN Contents]
                     /\ budget' \in [members : Nat, bytes : Nat]
           done == \E fs, n : /\ MovesOn(fs, n)
                              /\ \/ PassesMember(fs, n)
                                 \/ RefusesMember(fs, n)
                                 \/ ReadsMember(fs, n)
<1>11. CASE m.attr = "dir"
  <2> DEFINE passed == [Top EXCEPT !.rest = Tail(Top.rest), !.seen = Top.seen]
             fs == Append(Front(stack), passed)
  <2>1. MovesOn(fs, passed) /\ passed.rest = Tail(Top.rest)
    BY <1>1, <1>2, MovingOn
  <2>2. passed = [Top EXCEPT !.rest = Tail(Top.rest)]
    BY <1>1 DEF Frames
  <2>3. stack' = fs /\ UNCHANGED <<files, issues, budget, opened>>
    BY <1>6, <1>11, <2>2 DEF a
  <2> HIDE DEF fs, passed
  <2>4. PassesMember(fs, passed)
    BY <1>11, <2>1, <2>3 DEF PassesMember, m
  <2>5. typed
    BY <2>1, <2>3 DEF ScanTypeOK, MovesOn
  <2> QED
    BY <1>1, <1>2, <1>3, <2>1, <2>4, <2>5 DEF ScanTypeOK, path
<1>12. CASE m.attr # "dir" /\ failed # ""
  <2>1. failed \in Kinds /\ at \in Seq(Segments) /\ ext \in Exts
    BY <1>1, <1>3, <1>10, <1>12 DEF Exts, a
  <2>2. /\ issues' = Append(issues, Issue(failed, at, ext)) /\ stack' = frames
        /\ UNCHANGED <<files, budget, opened>>
    BY <1>7, <1>12
  <2>3. failed \in OfArchive \/ (at = path /\ ext = m.ext /\ rest = Tail(a.rest))
    BY DEF OfArchive, rest
  <2>4. failed \in OfArchive => at = a.path /\ ext = "zip" /\ rest \in {<<>>, Tail(a.rest)}
    BY DEF rest
  <2> HIDE DEF failed, at, ext, frames, moved
  <2>5. issues' \in Seq(Issues) /\ Keeps(issues, issues') /\ Named(issues', at, ext)
    BY <2>1, <2>2, OneMoreIssue DEF ScanTypeOK
  <2>6. RefusesMember(frames, moved)
    BY <1>5, <2>2, <2>3, <2>4, <2>5 DEF RefusesMember, a, m, path
  <2>7. typed
    BY <1>5, <2>2, <2>5 DEF ScanTypeOK, MovesOn
  <2> QED
    BY <1>1, <1>2, <1>3, <1>5, <2>6, <2>7 DEF ScanTypeOK, path
<1>13. CASE m.attr # "dir" /\ failed = ""
  <2>1. unresolved = "" /\ read_archive_member(m) = ""
    BY <1>13 DEF resolve_archive_member
  <2>2. budget.bytes + Contents[m.body].size <= MaxTotalExpanded
    <3>1. ~(budget.bytes + Contents[m.body].size > MaxTotalExpanded)
      BY <2>1 DEF read_archive_member
    <3>2. budget.bytes \in Nat /\ MaxTotalExpanded \in Nat /\ Contents[m.body].size \in Nat
      BY <1>3, ContentsAre, LimitsAssumption DEF ScanTypeOK
    <3> QED
      BY <3>1, <3>2
  <2>3. budget.members < MaxMemberCount
    <3>1. ~(budget.members >= MaxMemberCount)
      BY <2>1 DEF read_archive_member, handle_archive_member_limits
    <3>2. budget.members \in Nat /\ MaxMemberCount \in Nat
      BY LimitsAssumption DEF ScanTypeOK
    <3> QED
      BY <3>1, <3>2
  <2>4. rest = Tail(a.rest) /\ <<m.path, m.ext>> \notin a.seen /\ <<m.path, m.ext>> \in seen
    BY <1>9, <1>13, <2>1 DEF rest, seen, EndsArchive
  <2>5. /\ budget' = [members |-> budget.members + 1,
                      bytes |-> budget.bytes + Contents[m.body].size]
        /\ files' = Append(files, ScannedFile(path, m.ext, m.body))
        /\ m.ext = "zip" => OpenArchive(path, m.body, a.depth + 1, frames, issues)
        /\ m.ext # "zip" => stack' = frames /\ UNCHANGED <<issues, opened>>
    BY <1>8, <1>13
  <2> HIDE DEF failed, at, ext, frames, moved
  <2>6. budget' \in [members : Nat, bytes : Nat] /\ files' \in Seq(Scanned)
    <3>1. budget.members \in Nat /\ budget.bytes \in Nat /\ Contents[m.body].size \in Nat
      BY <1>3, ContentsAre DEF ScanTypeOK
    <3> QED
      BY <1>3, <2>5, <3>1, ScannedIs, AppendIs DEF ScanTypeOK
  <2>7. /\ stack' \in Seq(Frames) /\ issues' \in Seq(Issues)
        /\ opened' \in SUBSET [path : Seq(Segments), body : DOMAIN Contents]
        /\ \/ m.ext = "zip" /\ (\/ \E depth \in Nat : Opens(path, depth, m.body, frames, issues)
                                \/ Refuses(path, frames, issues))
           \/ m.ext # "zip" /\ stack' = frames /\ issues' = issues /\ opened' = opened
    <3>1. CASE m.ext = "zip"
      <4>1. a.depth + 1 \in Nat /\ frames \in Seq(Frames) /\ issues \in Seq(Issues)
        BY <1>1, <1>5 DEF a, MovesOn, ScanTypeOK
      <4>2. OpenArchive(path, m.body, a.depth + 1, frames, issues)
        BY <2>5, <3>1
      <4>3. /\ issues' \in Seq(Issues) /\ stack' \in Seq(Frames)
            /\ opened' \in SUBSET [path : Seq(Segments), body : DOMAIN Contents]
            /\ \/ Opens(path, a.depth + 1, m.body, frames, issues)
               \/ Refuses(path, frames, issues)
        BY <1>3, <4>1, <4>2, OpenStep
      <4> QED
        BY <3>1, <4>1, <4>3
    <3>2. CASE m.ext # "zip"
      BY <1>5, <2>5, <3>2 DEF MovesOn, ScanTypeOK
    <3> QED
      BY <3>1, <3>2
  <2>8. ReadsMember(frames, moved)
    BY <1>5, <2>2, <2>3, <2>4, <2>5, <2>7 DEF ReadsMember, a, m, path
  <2> QED
    BY <1>1, <1>2, <1>3, <1>5, <2>6, <2>7, <2>8 DEF ScanTypeOK, path
<1> QED
  BY <1>11, <1>12, <1>13

LEMMA CloseStep ==
  ASSUME ScanTypeOK, CloseArchive
  PROVE  /\ stack # <<>> /\ Top.rest = <<>> /\ stack' = Front(stack) /\ ScanTypeOK'
         /\ UNCHANGED <<listing, files, issues, budget, opened>>
BY TopIs DEF CloseArchive, ScanTypeOK

-----------------------------------------------------------------------------
(* The inductive invariant of a scan.                                      *)

(* No two files share path and extension, those still in the listing included. *)
NamesApart ==
  /\ \A i, j \in DOMAIN files :
       files[i].path = files[j].path /\ files[i].ext = files[j].ext => i = j
  /\ \A l \in DOMAIN listing : ~Named(files, <<listing[l].path>>, listing[l].ext)
  /\ \A k, l \in DOMAIN listing :
       listing[k].path = listing[l].path /\ listing[k].ext = listing[l].ext => k = l

(* The open archives lie inside one another, and each is a scanned file.   *)
FramesNest ==
  \A k \in DOMAIN stack : Len(stack[k].path) = k /\ Named(files, stack[k].path, "zip")

(* What was read out of an archive that is still open is in its seen set.  *)
SeenNames ==
  \A k \in DOMAIN stack, i \in DOMAIN files, s \in Segments :
    files[i].path = Append(stack[k].path, s) => <<s, files[i].ext>> \in stack[k].seen

(* A file inside an archive comes out of a scanned archive.                *)
NestedFiles ==
  \A i \in DOMAIN files :
    \/ Len(files[i].path) = 1
    \/ \E j \in DOMAIN files, s \in Segments :
         files[j].ext = "zip" /\ files[i].path = Append(files[j].path, s)

(* A member is a file, or reported, or still to be read.                   *)
Pending(a, m) ==
  \E k \in DOMAIN stack : stack[k].path = a.path /\ m \in Range(stack[k].rest)
Covered(a, m) ==
  \/ Named(files, Append(a.path, m.path), m.ext)
  \/ Named(issues, Append(a.path, m.path), m.ext)
  \/ Named(issues, a.path, "zip")
  \/ Pending(a, m)
Accounted ==
  \A a \in opened : \A m \in Range(Contents[a.body].members) : m.attr # "dir" => Covered(a, m)

ZipsOpened ==
  \A i \in DOMAIN files : files[i].ext = "zip" =>
    \/ \E a \in opened : a.path = files[i].path
    \/ Named(issues, files[i].path, "zip")

(* The budget counts what was read out of archives, in members and bytes.  *)
ReadFiles == {i \in DOMAIN files : Len(files[i].path) > 1}
Budgeted ==
  /\ Cardinality(ReadFiles) = budget.members /\ ExpandedBytes(files, ReadFiles) = budget.bytes
  /\ budget.members <= MaxMemberCount /\ budget.bytes <= MaxTotalExpanded

ScanInv ==
  /\ ScanTypeOK /\ NamesApart /\ FramesNest /\ SeenNames /\ NestedFiles
  /\ Accounted /\ ZipsOpened /\ Budgeted

AddsFile(path, ext, body) ==
  LET n == Len(files) + 1 IN
  /\ DOMAIN files' = DOMAIN files \cup {n} /\ n \notin DOMAIN files
  /\ \A i \in DOMAIN files : files'[i] = files[i]
  /\ files'[n].path = path /\ files'[n].ext = ext /\ files'[n].body = body

LEMMA FileAdded ==
  ASSUME ScanTypeOK, NEW path \in Seq(Segments), NEW ext \in Exts, NEW body \in DOMAIN Contents,
         files' = Append(files, ScannedFile(path, ext, body))
  PROVE  AddsFile(path, ext, body)
<1> DEFINE x == ScannedFile(path, ext, body)
<1>1. x \in Scanned /\ x.path = path /\ x.ext = ext /\ x.body = body
  BY ScannedIs
<1> HIDE DEF x
<1>2. files \in Seq(Scanned) /\ files' = Append(files, x)
  BY DEF ScanTypeOK, x
<1>3. /\ DOMAIN files' = DOMAIN files \cup {Len(files) + 1} /\ Len(files) + 1 \notin DOMAIN files
      /\ \A i \in DOMAIN files : files'[i] = files[i]
      /\ files'[Len(files) + 1] = x
  BY <1>1, <1>2, AppendIs
<1> QED
  BY <1>1, <1>3 DEF AddsFile

LEMMA FilesStay ==
  ASSUME NEW path, NEW ext, NEW body, AddsFile(path, ext, body), NEW p, NEW e
  PROVE  /\ Named(files', path, ext)
         /\ Named(files, p, e) => Named(files', p, e)
         /\ Named(files', p, e) => Named(files, p, e) \/ (p = path /\ e = ext)
BY DEF AddsFile, Named

LEMMA IssuesStay ==
  ASSUME NEW s, NEW t, Keeps(s, t), NEW p, NEW e, Named(s, p, e)
  PROVE  Named(t, p, e)
BY DEF Keeps, Named

LEMMA FilePathIs ==
  ASSUME ScanTypeOK, NEW i \in DOMAIN files
  PROVE  files[i].path \in Seq(Segments) /\ files[i].ext \in Exts /\ files[i].body \in DOMAIN Contents
<1>1. files \in Seq(Scanned)
  BY DEF ScanTypeOK
<1>2. files[i] \in Scanned
  BY <1>1
<1> QED
  BY <1>2 DEF Scanned

LEMMA FrameIs ==
  ASSUME ScanTypeOK, NEW k \in DOMAIN stack
  PROVE  /\ stack[k].path \in Seq(Segments) /\ stack[k].rest \in Seq(Members)
         /\ k \in 1 .. Len(stack) /\ Len(stack) \in Nat
<1>1. stack \in Seq(Frames)
  BY DEF ScanTypeOK
<1>2. stack[k] \in Frames /\ k \in 1 .. Len(stack) /\ Len(stack) \in Nat
  BY <1>1
<1> QED
  BY <1>2 DEF Frames

LEMMA FramesMoveOn ==
  ASSUME ScanTypeOK, stack # <<>>, NEW frames, NEW moved, MovesOn(frames, moved)
  PROVE  /\ DOMAIN frames = DOMAIN stack /\ Len(stack) \in DOMAIN stack /\ Len(stack) \in Nat \ {0}
         /\ \A k \in DOMAIN stack : frames[k].path = stack[k].path /\ stack[k].seen \subseteq frames[k].seen
         /\ \A k \in DOMAIN stack : k # Len(stack) => frames[k] = stack[k]
         /\ frames[Len(stack)] = moved /\ frames \in Seq(Frames) /\ Len(frames) = Len(stack)
<1>1. /\ Len(stack) \in Nat \ {0} /\ DOMAIN stack = 1 .. Len(stack) /\ stack \in Seq(Frames)
  BY TopIs
<1>2. /\ frames \in Seq(Frames) /\ Len(frames) = Len(stack) /\ frames[Len(stack)] = moved
      /\ \A k \in 1 .. Len(stack) - 1 : frames[k] = stack[k]
      /\ moved.path = stack[Len(stack)].path /\ stack[Len(stack)].seen \subseteq moved.seen
  BY DEF MovesOn, Top
<1>3. \A k \in DOMAIN stack : k # Len(stack) => k \in 1 .. Len(stack) - 1
  BY <1>1
<1>4. DOMAIN frames = 1 .. Len(frames)
  BY <1>2
<1> QED
  BY <1>1, <1>2, <1>3, <1>4

(* A frame more, for an archive that was just scanned.                     *)
LEMMA FramesGrow ==
  ASSUME NEW frames \in Seq(Frames), NEW path \in Seq(Segments), NEW depth \in Nat,
         NEW body \in DOMAIN Contents, NEW reported, Opens(path, depth, body, frames, reported)
  PROVE  /\ DOMAIN stack' = DOMAIN frames \cup {Len(frames) + 1}
         /\ \A k \in DOMAIN frames : stack'[k] = frames[k]
         /\ stack'[Len(frames) + 1].path = path
         /\ stack'[Len(frames) + 1].rest = Contents[body].members
<1> DEFINE x == OpenedFrame(path, depth, body)
<1>1. x \in Frames /\ x.path = path /\ x.rest = Contents[body].members
  BY OpenedFrameIs
<1> HIDE DEF x
<1>2. stack' = Append(frames, x)
  BY DEF Opens, x
<1>3. /\ Len(frames) \in Nat /\ DOMAIN stack' = DOMAIN frames \cup {Len(frames) + 1}
      /\ Len(frames) + 1 \notin DOMAIN frames
      /\ \A k \in DOMAIN frames : stack'[k] = frames[k]
      /\ stack'[Len(frames) + 1] = x
  BY <1>1, <1>2, AppendIs
<1> QED
  BY <1>1, <1>3

LEMMA FirstFrame ==
  ASSUME NEW path \in Seq(Segments), NEW body \in DOMAIN Contents,
         NEW reported, Opens(path, 0, body, <<>>, reported)
  PROVE  /\ DOMAIN stack' = {1}
         /\ stack'[1].path = path /\ stack'[1].rest = Contents[body].members
<1> DEFINE x == OpenedFrame(path, 0, body)
<1>1. x.path = path /\ x.rest = Contents[body].members
  BY DEF OpenedFrame
<1> HIDE DEF x
<1>2. stack' = Append(<<>>, x)
  BY DEF Opens, x
<1>3. stack' = <<x>>
  BY <1>2
<1>4. DOMAIN stack' = {1} /\ stack'[1] = x
  BY <1>3
<1> QED
  BY <1>1, <1>4

(* Nothing is inside an archive that is not a scanned file.                *)
LEMMA NoFileInside ==
  ASSUME ScanTypeOK, NestedFiles, NEW p \in Seq(Segments), p # <<>>, ~Named(files, p, "zip"),
         NEW i \in DOMAIN files, NEW s \in Segments
  PROVE  files[i].path # Append(p, s)
<1> SUFFICES ASSUME files[i].path = Append(p, s) PROVE FALSE
  OBVIOUS
<1>1. Len(p) \in Nat \ {0} /\ Len(files[i].path) = Len(p) + 1
  BY AppendIs
<1>2. PICK j \in DOMAIN files, t \in Segments :
        files[j].ext = "zip" /\ files[i].path = Append(files[j].path, t)
  BY <1>1 DEF NestedFiles
<1>3. files[j].path = p
  BY <1>2, FilePathIs, AppendsDiffer
<1> QED
  BY <1>2, <1>3 DEF Named

-----------------------------------------------------------------------------
(* A file of the folder is taken.                                          *)

LEMMA TakingAFile ==
  ASSUME ScanTypeOK, NEW f, f \in Listed, TakesFile(f)
  PROVE  /\ AddsFile(<<f.path>>, f.ext, f.body) /\ <<f.path>> \in Seq(Segments)
         /\ Len(<<f.path>>) = 1 /\ <<f.path>> # <<>>
         /\ f.ext \in Exts /\ f.body \in DOMAIN Contents
         /\ listing \in Seq(Listed) /\ listing # <<>>
<1>1. <<f.path>> \in Seq(Segments) /\ f.ext \in Exts /\ f.body \in DOMAIN Contents
  BY ListedIs
<1> QED
  BY <1>1, FileAdded DEF TakesFile, ScanTypeOK

LEMMA FileNamesApart ==
  ASSUME ScanTypeOK, NamesApart, NEW f, f \in Listed, TakesFile(f)
  PROVE  NamesApart' /\ ~Named(files, <<f.path>>, f.ext)
<1>1. /\ AddsFile(<<f.path>>, f.ext, f.body) /\ listing \in Seq(Listed) /\ listing # <<>>
  BY TakingAFile
<1>2. /\ f = listing[1] /\ 1 \in DOMAIN listing /\ listing' = Tail(listing)
      /\ \A l \in DOMAIN listing' : l + 1 \in DOMAIN listing /\ l \in Nat /\ listing'[l] = listing[l + 1]
      /\ \A l \in DOMAIN listing' : l > 0
  BY <1>1, TailIs DEF TakesFile
<1>3. ~Named(files, <<f.path>>, f.ext)
  BY <1>2 DEF NamesApart
<1>4. \A i, j \in DOMAIN files' :
        files'[i].path = files'[j].path /\ files'[i].ext = files'[j].ext => i = j
  BY <1>1, <1>3 DEF AddsFile, Named, NamesApart
<1>5. ASSUME NEW l \in DOMAIN listing', Named(files', <<listing'[l].path>>, listing'[l].ext)
      PROVE  FALSE
  <2>1. l + 1 # 1 /\ l + 1 \in DOMAIN listing /\ listing'[l] = listing[l + 1]
    BY <1>2
  <2>2. ~Named(files, <<listing'[l].path>>, listing'[l].ext)
    BY <2>1 DEF NamesApart
  <2>3. <<listing'[l].path>> = <<f.path>> /\ listing'[l].ext = f.ext
    BY <1>1, <1>5, <2>2, FilesStay
  <2>4. listing'[l].path = f.path
    BY <2>3
  <2> QED
    BY <1>2, <2>1, <2>3, <2>4 DEF NamesApart
<1>6. ASSUME NEW k \in DOMAIN listing', NEW l \in DOMAIN listing',
             listing'[k].path = listing'[l].path, listing'[k].ext = listing'[l].ext
      PROVE  k = l
  <2>1. k + 1 = l + 1
    BY <1>2, <1>6 DEF NamesApart
  <2> QED
    BY <1>2, <2>1
<1> QED
  BY <1>3, <1>4, <1>5, <1>6 DEF NamesApart

(* The frames a file of the folder leaves open: its own, or none.          *)
LEMMA FileFrames ==
  ASSUME ScanTypeOK, NEW f, f \in Listed, TakesFile(f), NEW k \in DOMAIN stack'
  PROVE  /\ k = 1 /\ f.ext = "zip" /\ stack'[k].path = <<f.path>>
         /\ stack'[k].rest = Contents[f.body].members
<1>1. <<f.path>> \in Seq(Segments) /\ f.body \in DOMAIN Contents
  BY TakingAFile
<1>2. stack' # <<>>
  OBVIOUS
<1>3. f.ext = "zip" /\ Opens(<<f.path>>, 0, f.body, <<>>, issues)
  BY <1>2 DEF TakesFile, Refuses
<1>4. k = 1 /\ stack'[1].path = <<f.path>> /\ stack'[1].rest = Contents[f.body].members
  BY <1>1, <1>3, FirstFrame
<1> QED
  BY <1>3, <1>4

LEMMA FileKeepsInv ==
  ASSUME ScanInv, ScanFile
  PROVE  ScanInv'
<1> DEFINE f == Head(listing)
           path == <<f.path>>
<1>1. ScanTypeOK /\ ScanTypeOK' /\ TakesFile(f) /\ f \in Listed
  BY FileStep DEF ScanInv
<1> HIDE DEF f
<1>2. /\ AddsFile(path, f.ext, f.body) /\ path \in Seq(Segments) /\ Len(path) = 1 /\ path # <<>>
      /\ f.ext \in Exts /\ f.body \in DOMAIN Contents
  BY <1>1, TakingAFile
<1>3. NamesApart' /\ ~Named(files, path, f.ext)
  BY <1>1, FileNamesApart DEF ScanInv
<1>4. \A k \in DOMAIN stack' : /\ k = 1 /\ f.ext = "zip" /\ stack'[k].path = path
                               /\ stack'[k].rest = Contents[f.body].members
  BY <1>1, FileFrames
<1> HIDE DEF path
<1>5. FramesNest'
  <2> SUFFICES ASSUME NEW k \in DOMAIN stack'
               PROVE  Len(stack'[k].path) = k /\ Named(files', stack'[k].path, "zip")
    BY DEF FramesNest
  <2>1. k = 1 /\ f.ext = "zip" /\ stack'[k].path = path
    BY <1>4
  <2>2. Named(files', path, f.ext)
    BY <1>2, FilesStay
  <2> QED
    BY <1>2, <2>1, <2>2
<1>6. SeenNames'
  <2> SUFFICES ASSUME NEW k \in DOMAIN stack', NEW i \in DOMAIN files', NEW s \in Segments,
                      files'[i].path = Append(stack'[k].path, s)
               PROVE  FALSE
    BY DEF SeenNames
  <2>1. files'[i].path = Append(path, s) /\ ~Named(files, path, "zip")
    BY <1>3, <1>4
  <2>2. i \in DOMAIN files => files[i].path # Append(path, s)
    BY <1>1, <1>2, <2>1, NoFileInside DEF ScanInv
  <2>3. path # Append(path, s)
    BY <1>2, AppendIs
  <2> QED
    BY <1>2, <2>1, <2>2, <2>3 DEF AddsFile
<1>7. NestedFiles'
  <2> SUFFICES ASSUME NEW i \in DOMAIN files', Len(files'[i].path) # 1
               PROVE  \E j \in DOMAIN files', s \in Segments :
                        files'[j].ext = "zip" /\ files'[i].path = Append(files'[j].path, s)
    BY DEF NestedFiles
  <2>1. i \in DOMAIN files /\ files'[i] = files[i]
    BY <1>2 DEF AddsFile
  <2>2. PICK j \in DOMAIN files, s \in Segments :
          files[j].ext = "zip" /\ files[i].path = Append(files[j].path, s)
    BY <2>1 DEF NestedFiles, ScanInv
  <2>3. j \in DOMAIN files' /\ files'[j] = files[j]
    BY <1>2 DEF AddsFile
  <2> QED
    BY <2>1, <2>2, <2>3
<1>8. Keeps(issues, issues')
  BY <1>1, KeepsItself DEF TakesFile, Opens, Refuses
<1>9. stack = <<>> /\ DOMAIN stack = {}
  BY <1>1 DEF TakesFile
<1>10. opened' = opened \/ (/\ f.ext = "zip" /\ opened' = opened \cup {[path |-> path, body |-> f.body]}
                            /\ Opens(path, 0, f.body, <<>>, issues))
  BY <1>1 DEF TakesFile, Opens, Refuses, path
<1>11. Accounted'
  <2> SUFFICES ASSUME NEW a \in opened', NEW m \in Range(Contents[a.body].members), m.attr # "dir"
               PROVE  Covered(a, m)'
    BY DEF Accounted
  <2>1. CASE a \in opened
    <3>1. Covered(a, m) /\ ~Pending(a, m)
      BY <1>9, <2>1 DEF ScanInv, Accounted, Pending
    <3> QED
      BY <1>2, <1>8, <3>1, FilesStay, IssuesStay DEF Covered
  <2>2. CASE a \notin opened
    <3>1. /\ a.path = path /\ a.body = f.body /\ Opens(path, 0, f.body, <<>>, issues)
      BY <1>10, <2>2
    <3>3. 1 \in DOMAIN stack'
      BY <1>2, <3>1, FirstFrame
    <3>4. stack'[1].path = a.path /\ m \in Range(stack'[1].rest)
      BY <1>4, <3>1, <3>3
    <3> QED
      BY <3>3, <3>4 DEF Covered, Pending
  <2> QED
    BY <2>1, <2>2
<1>12. ZipsOpened'
  <2> SUFFICES ASSUME NEW i \in DOMAIN files', files'[i].ext = "zip"
               PROVE  \/ \E a \in opened' : a.path = files'[i].path
                      \/ Named(issues', files'[i].path, "zip")
    BY DEF ZipsOpened
  <2>1. CASE i \in DOMAIN files
    <3>1. files'[i] = files[i]
      BY <1>2, <2>1 DEF AddsFile
    <3>2. (\E a \in opened : a.path = files[i].path) \/ Named(issues, files[i].path, "zip")
      BY <2>1, <3>1 DEF ScanInv, ZipsOpened
    <3> QED
      BY <1>8, <1>10, <3>1, <3>2, IssuesStay
  <2>2. CASE i \notin DOMAIN files
    <3>1. files'[i].path = path /\ f.ext = "zip"
      BY <1>2, <2>2 DEF AddsFile
    <3>2. \/ [path |-> path, body |-> f.body] \in opened'
          \/ Named(issues', path, "zip")
      BY <1>1, <3>1 DEF TakesFile, Opens, Refuses, path
    <3> QED
      BY <3>1, <3>2
  <2> QED
    BY <2>1, <2>2
<1>13. Budgeted'
  <2>1. budget' = budget /\ ReadFiles' = ReadFiles
    <3>1. budget' = budget
      BY <1>1 DEF TakesFile
    <3>2. ASSUME NEW i PROVE i \in ReadFiles' <=> i \in ReadFiles
      <4>1. i \in DOMAIN files => files'[i] = files[i] /\ i \in DOMAIN files'
        BY <1>2 DEF AddsFile
      <4>2. i \notin DOMAIN files => i \notin DOMAIN files' \/ Len(files'[i].path) = 1
        BY <1>2 DEF AddsFile
      <4>3. i \in ReadFiles <=> i \in DOMAIN files /\ Len(files[i].path) > 1
        BY DEF ReadFiles
      <4>4. i \in ReadFiles' <=> i \in DOMAIN files' /\ Len(files'[i].path) > 1
        BY DEF ReadFiles
      <4>5. CASE i \in DOMAIN files
        <5>1. Len(files'[i].path) = Len(files[i].path)
          BY <4>1, <4>5
        <5> QED
          BY <4>1, <4>3, <4>4, <4>5, <5>1
      <4>6. CASE i \notin DOMAIN files
        <5>1. Len(files'[i].path) = 1 => ~(Len(files'[i].path) > 1)
          OBVIOUS
        <5> QED
          BY <4>2, <4>3, <4>4, <4>6, <5>1
      <4> QED
        BY <4>5, <4>6
    <3> QED
      BY <3>1, <3>2
  <2>2. IsFiniteSet(ReadFiles)
    <3>1. Len(files) \in Nat /\ DOMAIN files = 1 .. Len(files)
      BY <1>1 DEF ScanTypeOK
    <3>2. IsFiniteSet(DOMAIN files)
      BY <3>1, FS_Interval
    <3> QED
      BY <3>2, FS_Subset DEF ReadFiles
  <2>3. \A i \in ReadFiles : SizeOf(files, i) \in Nat /\ SizeOf(files', i) = SizeOf(files, i)
    BY <1>1, <1>2, FilePathIs, ContentsAre DEF ReadFiles, SizeOf, AddsFile
  <2>4. ExpandedBytes(files', ReadFiles) = ExpandedBytes(files, ReadFiles)
    BY <2>2, <2>3, SameFiles
  <2> QED
    BY <2>1, <2>4 DEF ScanInv, Budgeted
<1> QED
  BY <1>1, <1>3, <1>5, <1>6, <1>7, <1>11, <1>12, <1>13 DEF ScanInv

-----------------------------------------------------------------------------
(* A member of the innermost open archive is passed over, refused or read. *)

LEMMA TopFrame ==
  ASSUME ScanInv, stack # <<>>
  PROVE  /\ Len(stack) \in DOMAIN stack /\ Top = stack[Len(stack)] /\ Top.path \in Seq(Segments)
         /\ Len(stack) \in Nat \ {0} /\ Len(Top.path) = Len(stack) /\ Named(files, Top.path, "zip")
         /\ Top.rest \in Seq(Members)
<1>1. Len(stack) \in DOMAIN stack
  BY TopIs DEF ScanInv
<1> QED
  BY <1>1, TopIs, FrameIs DEF ScanInv, FramesNest, Top

(* The files and the budget stay, the frames move on by a member.          *)
LEMMA MovingKeeps ==
  ASSUME ScanInv, stack # <<>>, NEW frames, NEW moved, MovesOn(frames, moved),
         files' = files, listing' = listing, budget' = budget, opened' = opened, stack' = frames,
         Keeps(issues, issues'), ScanTypeOK'
  PROVE  /\ NamesApart' /\ FramesNest' /\ SeenNames' /\ NestedFiles' /\ ZipsOpened' /\ Budgeted'
         /\ \A a \in opened : \A m \in Range(Contents[a.body].members) :
              Covered(a, m) /\ ~(a.path = Top.path /\ m \in Range(Top.rest)) => Covered(a, m)'
<1>1. /\ DOMAIN frames = DOMAIN stack /\ Len(stack) \in DOMAIN stack
      /\ \A k \in DOMAIN stack : frames[k].path = stack[k].path /\ stack[k].seen \subseteq frames[k].seen
      /\ \A k \in DOMAIN stack : k # Len(stack) => frames[k] = stack[k]
  BY FramesMoveOn DEF ScanInv
<1>2. NamesApart' /\ NestedFiles' /\ Budgeted'
  BY DEF ScanInv, NamesApart, NestedFiles, Budgeted, ReadFiles
<1>3. FramesNest'
  BY <1>1 DEF ScanInv, FramesNest
<1>4. SeenNames'
  <2> SUFFICES ASSUME NEW k \in DOMAIN frames, NEW i \in DOMAIN files, NEW s \in Segments,
                      files[i].path = Append(frames[k].path, s)
               PROVE  <<s, files[i].ext>> \in frames[k].seen
    BY DEF SeenNames
  <2>1. k \in DOMAIN stack /\ files[i].path = Append(stack[k].path, s)
    BY <1>1
  <2>2. <<s, files[i].ext>> \in stack[k].seen
    BY <2>1 DEF ScanInv, SeenNames
  <2> QED
    BY <1>1, <2>1, <2>2
<1>5. ZipsOpened'
  BY IssuesStay DEF ScanInv, ZipsOpened
<1>6. ASSUME NEW a \in opened, NEW m \in Range(Contents[a.body].members),
             Covered(a, m), ~(a.path = Top.path /\ m \in Range(Top.rest))
      PROVE  Covered(a, m)'
  <2>1. Pending(a, m) => Pending(a, m)'
    BY <1>1, <1>6 DEF Pending, Top
  <2> QED
    BY <1>6, <2>1, IssuesStay DEF Covered
<1> QED
  BY <1>2, <1>3, <1>4, <1>5, <1>6

(* In the frame that moved on, what is left of it waits.                   *)
LEMMA TailWaits ==
  ASSUME ScanInv, stack # <<>>, NEW frames, NEW moved, MovesOn(frames, moved),
         DOMAIN frames \subseteq DOMAIN stack', stack'[Len(stack)] = frames[Len(stack)],
         moved.rest = Tail(Top.rest), Top.rest # <<>>,
         NEW a, NEW m, a.path = Top.path, m \in Range(Top.rest), m # Member
  PROVE  Pending(a, m)'
<1>1. /\ DOMAIN frames = DOMAIN stack /\ Len(stack) \in DOMAIN stack
      /\ frames[Len(stack)] = moved
  BY FramesMoveOn DEF ScanInv
<1>2. m \in Range(Tail(Top.rest))
  BY TopFrame, TailIs DEF Member
<1>3. moved.path = Top.path
  BY DEF MovesOn
<1> QED
  BY <1>1, <1>2, <1>3 DEF Pending

LEMMA PassKeepsInv ==
  ASSUME ScanInv, stack # <<>>, Top.rest # <<>>, NEW frames, NEW moved, MovesOn(frames, moved),
         listing' = listing, ScanTypeOK',
         PassesMember(frames, moved) \/ RefusesMember(frames, moved)
  PROVE  ScanInv'
<1>1. /\ files' = files /\ budget' = budget /\ opened' = opened /\ stack' = frames
      /\ Keeps(issues, issues')
  BY KeepsItself DEF PassesMember, RefusesMember
<1>2. /\ NamesApart' /\ FramesNest' /\ SeenNames' /\ NestedFiles' /\ ZipsOpened' /\ Budgeted'
      /\ \A a \in opened : \A m \in Range(Contents[a.body].members) :
           Covered(a, m) /\ ~(a.path = Top.path /\ m \in Range(Top.rest)) => Covered(a, m)'
  BY <1>1, MovingKeeps
<1>3. Accounted'
  <2> SUFFICES ASSUME NEW a \in opened, NEW m \in Range(Contents[a.body].members), m.attr # "dir"
               PROVE  Covered(a, m)'
    BY <1>1 DEF Accounted
  <2>1. Covered(a, m)
    BY DEF ScanInv, Accounted
  <2>2. CASE ~(a.path = Top.path /\ m \in Range(Top.rest))
    BY <1>2, <2>1, <2>2
  <2>3. CASE a.path = Top.path /\ m \in Range(Top.rest) /\ moved.rest = Tail(Top.rest) /\ m # Member
    <3>1. Len(stack) \in DOMAIN stack /\ DOMAIN frames \subseteq DOMAIN stack'
          /\ stack'[Len(stack)] = frames[Len(stack)]
      BY <1>1, TopFrame
    <3>2. Pending(a, m)'
      BY <2>3, <3>1, TailWaits
    <3> QED
      BY <3>2 DEF Covered
  <2>4. CASE a.path = Top.path /\ m = Member
    BY <2>4 DEF Covered, PassesMember, RefusesMember, MemberPlace
  <2>5. CASE a.path = Top.path /\ moved.rest # Tail(Top.rest)
    BY <2>5 DEF Covered, PassesMember, RefusesMember
  <2> QED
    BY <2>2, <2>3, <2>4, <2>5
<1> QED
  BY <1>2, <1>3 DEF ScanInv

-----------------------------------------------------------------------------
(* A member is read: a file more, and a frame more when it is an archive.  *)

LEMMA ReadingAMember ==
  ASSUME ScanInv, stack # <<>>, Member \in Members, MemberPlace \in Seq(Segments),
         NEW frames, NEW moved, MovesOn(frames, moved), ReadsMember(frames, moved)
  PROVE  /\ AddsFile(MemberPlace, Member.ext, Member.body)
         /\ Member.path \in Segments /\ Member.ext \in Exts /\ Member.body \in DOMAIN Contents
         /\ ~Named(files, MemberPlace, Member.ext)
         /\ Len(MemberPlace) = Len(stack) + 1 /\ MemberPlace # <<>>
         /\ Keeps(issues, issues')
<1>1. Member.path \in Segments /\ Member.ext \in Exts /\ Member.body \in DOMAIN Contents
  BY MemberIs
<1>2. AddsFile(MemberPlace, Member.ext, Member.body)
  BY <1>1, FileAdded DEF ReadsMember, ScanInv
<1>3. Len(MemberPlace) = Len(stack) + 1 /\ MemberPlace # <<>>
  BY <1>1, TopFrame, AppendIs DEF MemberPlace
<1>4. ~Named(files, MemberPlace, Member.ext)
  <2> SUFFICES ASSUME NEW i \in DOMAIN files, files[i].path = MemberPlace, files[i].ext = Member.ext
               PROVE  FALSE
    BY DEF Named
  <2>1. <<Member.path, files[i].ext>> \in Top.seen
    BY <1>1, TopFrame DEF ScanInv, SeenNames, MemberPlace
  <2> QED
    BY <2>1 DEF ReadsMember
<1>5. Keeps(issues, issues')
  BY KeepsItself DEF ReadsMember, Opens, Refuses
<1> QED
  BY <1>1, <1>2, <1>3, <1>4, <1>5

(* The frames after it: those there were, moved on, and perhaps its own.   *)
LEMMA ReadFrames ==
  ASSUME ScanInv, stack # <<>>, Member \in Members, MemberPlace \in Seq(Segments),
         NEW frames, NEW moved, MovesOn(frames, moved), ReadsMember(frames, moved)
  PROVE  /\ \A k \in DOMAIN stack :
              /\ k \in DOMAIN stack' /\ stack'[k].path = stack[k].path
              /\ stack[k].seen \subseteq stack'[k].seen
              /\ k # Len(stack) => stack'[k] = stack[k]
         /\ stack'[Len(stack)] = moved
         /\ \A k \in DOMAIN stack' : k \in DOMAIN stack \/
              (/\ k = Len(stack) + 1 /\ Member.ext = "zip" /\ stack'[k].path = MemberPlace)
         /\ \/ opened' = opened
            \/ /\ opened' = opened \cup {[path |-> MemberPlace, body |-> Member.body]}
               /\ Len(stack) + 1 \in DOMAIN stack' /\ stack'[Len(stack) + 1].path = MemberPlace
               /\ stack'[Len(stack) + 1].rest = Contents[Member.body].members
         /\ Member.ext = "zip" =>
              \/ [path |-> MemberPlace, body |-> Member.body] \in opened'
              \/ Named(issues', MemberPlace, "zip")
<1>1. /\ DOMAIN frames = DOMAIN stack /\ Len(stack) \in DOMAIN stack
      /\ \A k \in DOMAIN stack : frames[k].path = stack[k].path /\ stack[k].seen \subseteq frames[k].seen
      /\ \A k \in DOMAIN stack : k # Len(stack) => frames[k] = stack[k]
      /\ frames[Len(stack)] = moved /\ frames \in Seq(Frames) /\ Len(frames) = Len(stack)
  BY FramesMoveOn DEF ScanInv
<1>2. Member.body \in DOMAIN Contents
  BY MemberIs
<1>3. CASE stack' = frames /\ opened' = opened /\
           (Member.ext = "zip" => Named(issues', MemberPlace, "zip"))
  BY <1>1, <1>3
<1>4. CASE Member.ext = "zip" /\ \E depth \in Nat : Opens(MemberPlace, depth, Member.body, frames, issues)
  <2>1. PICK depth \in Nat : Opens(MemberPlace, depth, Member.body, frames, issues)
    BY <1>4
  <2>2. /\ DOMAIN stack' = DOMAIN frames \cup {Len(frames) + 1}
        /\ \A k \in DOMAIN frames : stack'[k] = frames[k]
        /\ stack'[Len(frames) + 1].path = MemberPlace
        /\ stack'[Len(frames) + 1].rest = Contents[Member.body].members
    <3>1. frames \in Seq(Frames)
      BY <1>1
    <3>2. depth \in Nat /\ Opens(MemberPlace, depth, Member.body, frames, issues)
      BY <2>1
    <3>3. \A body \in DOMAIN Contents : \A reported :
            Opens(MemberPlace, depth, body, frames, reported) =>
              /\ DOMAIN stack' = DOMAIN frames \cup {Len(frames) + 1}
              /\ \A k \in DOMAIN frames : stack'[k] = frames[k]
              /\ stack'[Len(frames) + 1].path = MemberPlace
              /\ stack'[Len(frames) + 1].rest = Contents[body].members
      BY <3>1, <3>2, FramesGrow
    <3> QED
      BY <1>2, <3>2, <3>3
  <2>3. opened' = opened \cup {[path |-> MemberPlace, body |-> Member.body]}
    BY <2>1 DEF Opens
  <2> QED
    BY <1>1, <1>4, <2>2, <2>3
<1> QED
  BY <1>3, <1>4 DEF ReadsMember, Refuses

LEMMA ReadKeepsNames ==
  ASSUME ScanInv, stack # <<>>, Member \in Members, MemberPlace \in Seq(Segments), ScanTypeOK',
         listing' = listing,
         NEW frames, NEW moved, MovesOn(frames, moved), ReadsMember(frames, moved)
  PROVE  NamesApart' /\ FramesNest' /\ SeenNames' /\ NestedFiles'
<1> DEFINE n == Len(files) + 1
<1>1. /\ AddsFile(MemberPlace, Member.ext, Member.body)
      /\ Member.path \in Segments /\ Member.ext \in Exts /\ Member.body \in DOMAIN Contents
      /\ ~Named(files, MemberPlace, Member.ext)
      /\ Len(MemberPlace) = Len(stack) + 1 /\ MemberPlace # <<>>
  BY ReadingAMember
<1>2. /\ Len(stack) \in DOMAIN stack /\ Top = stack[Len(stack)] /\ Top.path \in Seq(Segments)
      /\ Len(stack) \in Nat \ {0} /\ Len(Top.path) = Len(stack) /\ Named(files, Top.path, "zip")
  BY TopFrame
<1>3. /\ \A k \in DOMAIN stack :
           /\ k \in DOMAIN stack' /\ stack'[k].path = stack[k].path
           /\ stack[k].seen \subseteq stack'[k].seen
      /\ stack'[Len(stack)] = moved
      /\ \A k \in DOMAIN stack' : k \in DOMAIN stack \/
           (/\ k = Len(stack) + 1 /\ Member.ext = "zip" /\ stack'[k].path = MemberPlace)
  BY ReadFrames
<1>4. /\ DOMAIN files' = DOMAIN files \cup {n} /\ n \notin DOMAIN files
      /\ \A i \in DOMAIN files : files'[i] = files[i]
      /\ files'[n].path = MemberPlace /\ files'[n].ext = Member.ext
  BY <1>1 DEF AddsFile
<1> HIDE DEF n
<1>5. NamesApart'
  <2>1. \A i, j \in DOMAIN files' :
          files'[i].path = files'[j].path /\ files'[i].ext = files'[j].ext => i = j
    <3>1. \A i, j \in DOMAIN files :
            files[i].path = files[j].path /\ files[i].ext = files[j].ext => i = j
      BY DEF ScanInv, NamesApart
    <3>2. \A i \in DOMAIN files : files[i].path # MemberPlace \/ files[i].ext # Member.ext
      BY <1>1 DEF Named
    <3> QED
      BY <1>4, <3>1, <3>2
  <2>2. ASSUME NEW l \in DOMAIN listing PROVE ~Named(files', <<listing[l].path>>, listing[l].ext)
    <3>1. ~Named(files, <<listing[l].path>>, listing[l].ext)
      BY DEF ScanInv, NamesApart
    <3>2. MemberPlace # <<listing[l].path>>
      <4>1. Len(MemberPlace) # 1
        BY <1>1, <1>2
      <4>2. Len(<<listing[l].path>>) = 1
        OBVIOUS
      <4> QED
        BY <4>1, <4>2
    <3>3. AddsFile(MemberPlace, Member.ext, Member.body)
      BY <1>1
    <3>4. \A p : \A e : Named(files', p, e) =>
            Named(files, p, e) \/ (p = MemberPlace /\ e = Member.ext)
      BY <3>3, FilesStay
    <3> QED
      BY <3>1, <3>2, <3>4
  <2>3. \A k, l \in DOMAIN listing :
          listing[k].path = listing[l].path /\ listing[k].ext = listing[l].ext => k = l
    BY DEF ScanInv, NamesApart
  <2> QED
    BY <2>1, <2>2, <2>3 DEF NamesApart
<1>6. FramesNest'
  <2> SUFFICES ASSUME NEW k \in DOMAIN stack'
               PROVE  Len(stack'[k].path) = k /\ Named(files', stack'[k].path, "zip")
    BY DEF FramesNest
  <2>1. CASE k \in DOMAIN stack
    <3>1. Len(stack[k].path) = k /\ Named(files, stack[k].path, "zip")
      BY <2>1 DEF ScanInv, FramesNest
    <3> QED
      BY <1>1, <1>3, <2>1, <3>1, FilesStay
  <2>2. CASE k \notin DOMAIN stack
    <3>1. k = Len(stack) + 1 /\ Member.ext = "zip" /\ stack'[k].path = MemberPlace
      BY <1>3, <2>2
    <3> QED
      BY <1>1, <3>1, FilesStay
  <2> QED
    BY <2>1, <2>2
<1>7. SeenNames'
  <2> SUFFICES ASSUME NEW k \in DOMAIN stack', NEW i \in DOMAIN files', NEW s \in Segments,
                      files'[i].path = Append(stack'[k].path, s)
               PROVE  <<s, files'[i].ext>> \in stack'[k].seen
    BY DEF SeenNames
  <2>1. CASE k \in DOMAIN stack /\ i \in DOMAIN files
    <3>1. <<s, files[i].ext>> \in stack[k].seen
      BY <1>3, <1>4, <2>1 DEF ScanInv, SeenNames
    <3> QED
      BY <1>3, <1>4, <2>1, <3>1
  <2>2. CASE k \in DOMAIN stack /\ i \notin DOMAIN files
    <3>1. Append(Top.path, Member.path) = Append(stack[k].path, s) /\ i = n
      BY <1>3, <1>4, <2>2 DEF MemberPlace
    <3>2. stack[k].path \in Seq(Segments)
      BY <2>2, FrameIs DEF ScanInv
    <3>3. Top.path = stack[k].path /\ Member.path = s
      <4>1. /\ Top.path \in Seq(Segments) /\ Member.path \in Segments
            /\ Append(Top.path, Member.path) = Append(stack[k].path, s)
        BY <1>1, <1>2, <3>1
      <4>2. \A p, q \in Seq(Segments) : \A x, y \in Segments :
              Append(p, x) = Append(q, y) => p = q /\ x = y
        BY AppendsDiffer
      <4>3. \A q \in Seq(Segments) : \A x, y \in Segments :
              Append(Top.path, x) = Append(q, y) => Top.path = q /\ x = y
        BY <4>1, <4>2
      <4>4. \A x, y \in Segments : Append(Top.path, x) = Append(stack[k].path, y)
              => Top.path = stack[k].path /\ x = y
        BY <3>2, <4>3
      <4>5. s \in Segments /\ Member.path \in Segments
        BY <4>1
      <4> QED
        BY <4>1, <4>4, <4>5
    <3>4. k = Len(stack)
      BY <1>2, <2>2, <3>3 DEF ScanInv, FramesNest
    <3> QED
      BY <1>3, <1>4, <3>1, <3>3, <3>4 DEF ReadsMember
  <2>3. CASE k \notin DOMAIN stack
    <3>1. Member.ext = "zip" /\ stack'[k].path = MemberPlace
      BY <1>3, <2>3
    <3>2. i \in DOMAIN files => files[i].path # Append(MemberPlace, s)
      BY <1>1, <3>1, NoFileInside DEF ScanInv
    <3>3. MemberPlace # Append(MemberPlace, s)
      BY AppendIs
    <3> QED
      BY <1>4, <3>1, <3>2, <3>3
  <2> QED
    BY <2>1, <2>2, <2>3
<1>8. NestedFiles'
  <2> SUFFICES ASSUME NEW i \in DOMAIN files', Len(files'[i].path) # 1
               PROVE  \E j \in DOMAIN files', s \in Segments :
                        files'[j].ext = "zip" /\ files'[i].path = Append(files'[j].path, s)
    BY DEF NestedFiles
  <2>1. CASE i \in DOMAIN files
    <3>1. PICK j \in DOMAIN files, s \in Segments :
            files[j].ext = "zip" /\ files[i].path = Append(files[j].path, s)
      BY <1>4, <2>1 DEF NestedFiles, ScanInv
    <3>2. j \in DOMAIN files' /\ files'[j] = files[j]
      BY <1>4
    <3> QED
      BY <1>4, <2>1, <3>1, <3>2
  <2>2. CASE i \notin DOMAIN files
    <3>1. PICK j \in DOMAIN files : files[j].path = Top.path /\ files[j].ext = "zip"
      BY <1>2 DEF Named
    <3>2. files'[i].path = Append(files'[j].path, Member.path) /\ j \in DOMAIN files'
          /\ files'[j].ext = "zip"
      BY <1>4, <2>2, <3>1 DEF MemberPlace
    <3> QED
      BY <1>1, <3>2
  <2> QED
    BY <2>1, <2>2
<1> QED
  BY <1>5, <1>6, <1>7, <1>8

LEMMA ReadKeepsAccount ==
  ASSUME ScanInv, stack # <<>>, Top.rest # <<>>,
         Member \in Members, MemberPlace \in Seq(Segments), ScanTypeOK',
         NEW frames, NEW moved, MovesOn(frames, moved), ReadsMember(frames, moved)
  PROVE  Accounted' /\ ZipsOpened'
<1> DEFINE n == Len(stack) + 1
<1>1. /\ AddsFile(MemberPlace, Member.ext, Member.body) /\ Keeps(issues, issues')
  BY ReadingAMember
<1>2. Len(stack) \in DOMAIN stack /\ Top = stack[Len(stack)]
  BY TopFrame
<1>3. /\ \A k \in DOMAIN stack :
           /\ k \in DOMAIN stack' /\ stack'[k].path = stack[k].path
           /\ k # Len(stack) => stack'[k] = stack[k]
      /\ stack'[Len(stack)] = moved
      /\ \/ opened' = opened
         \/ /\ opened' = opened \cup {[path |-> MemberPlace, body |-> Member.body]}
            /\ n \in DOMAIN stack' /\ stack'[n].path = MemberPlace
            /\ stack'[n].rest = Contents[Member.body].members
      /\ Member.ext = "zip" =>
           \/ [path |-> MemberPlace, body |-> Member.body] \in opened'
           \/ Named(issues', MemberPlace, "zip")
  BY ReadFrames
<1> HIDE DEF n
<1>4. Accounted'
  <2> SUFFICES ASSUME NEW a \in opened', NEW m \in Range(Contents[a.body].members), m.attr # "dir"
               PROVE  Covered(a, m)'
    BY DEF Accounted
  <2>1. CASE a \notin opened
    <3>1. /\ a.path = MemberPlace /\ a.body = Member.body
          /\ n \in DOMAIN stack' /\ stack'[n].path = MemberPlace
          /\ stack'[n].rest = Contents[Member.body].members
      BY <1>3, <2>1
    <3>2. Pending(a, m)'
      BY <3>1 DEF Pending
    <3> QED
      BY <3>2 DEF Covered
  <2>2. CASE a \in opened /\ Pending(a, m)
    <3>1. PICK k \in DOMAIN stack : stack[k].path = a.path /\ m \in Range(stack[k].rest)
      BY <2>2 DEF Pending
    <3>2. CASE k # Len(stack)
      <4>1. Pending(a, m)'
        BY <1>3, <3>1, <3>2 DEF Pending
      <4> QED
        BY <4>1 DEF Covered
    <3>3. CASE k = Len(stack) /\ m # Member
      <4>1. /\ DOMAIN frames = DOMAIN stack /\ frames[Len(stack)] = moved
        BY FramesMoveOn DEF ScanInv
      <4>2. /\ DOMAIN frames \subseteq DOMAIN stack' /\ stack'[Len(stack)] = frames[Len(stack)]
            /\ moved.rest = Tail(Top.rest) /\ a.path = Top.path /\ m \in Range(Top.rest)
        BY <1>2, <1>3, <3>1, <3>3, <4>1 DEF ReadsMember
      <4>3. Pending(a, m)'
        BY <3>3, <4>2, TailWaits
      <4> QED
        BY <4>3 DEF Covered
    <3>4. CASE k = Len(stack) /\ m = Member
      <4>1. Append(a.path, m.path) = MemberPlace
        BY <1>2, <3>1, <3>4 DEF MemberPlace
      <4>2. Named(files', MemberPlace, Member.ext)
        BY <1>1, FilesStay
      <4> QED
        BY <3>4, <4>1, <4>2 DEF Covered
    <3> QED
      BY <3>2, <3>3, <3>4
  <2>3. CASE a \in opened /\ ~Pending(a, m)
    <3>1. Covered(a, m)
      BY <2>3 DEF ScanInv, Accounted
    <3> QED
      BY <1>1, <2>3, <3>1, FilesStay, IssuesStay DEF Covered
  <2> QED
    BY <2>1, <2>2, <2>3
<1>5. ZipsOpened'
  <2> SUFFICES ASSUME NEW i \in DOMAIN files', files'[i].ext = "zip"
               PROVE  \/ \E a \in opened' : a.path = files'[i].path
                      \/ Named(issues', files'[i].path, "zip")
    BY DEF ZipsOpened
  <2>1. CASE i \in DOMAIN files
    <3>1. files'[i] = files[i]
      BY <1>1, <2>1 DEF AddsFile
    <3>2. (\E a \in opened : a.path = files[i].path) \/ Named(issues, files[i].path, "zip")
      BY <2>1, <3>1 DEF ScanInv, ZipsOpened
    <3> QED
      BY <1>1, <1>3, <3>1, <3>2, IssuesStay
  <2>2. CASE i \notin DOMAIN files
    <3>1. files'[i].path = MemberPlace /\ Member.ext = "zip"
      BY <1>1, <2>2 DEF AddsFile
    <3> QED
      BY <1>3, <3>1
  <2> QED
    BY <2>1, <2>2
<1> QED
  BY <1>4, <1>5

LEMMA ReadKeepsBudget ==
  ASSUME ScanInv, stack # <<>>, Member \in Members, MemberPlace \in Seq(Segments), ScanTypeOK',
         NEW frames, NEW moved, MovesOn(frames, moved), ReadsMember(frames, moved)
  PROVE  Budgeted'
<1> DEFINE n == Len(files) + 1
<1>1. /\ AddsFile(MemberPlace, Member.ext, Member.body)
      /\ Member.body \in DOMAIN Contents /\ Len(MemberPlace) = Len(stack) + 1
      /\ Len(stack) \in Nat \ {0}
  BY ReadingAMember, TopFrame
<1>2. /\ DOMAIN files' = DOMAIN files \cup {n} /\ n \notin DOMAIN files
      /\ \A i \in DOMAIN files : files'[i] = files[i]
      /\ files'[n].path = MemberPlace /\ files'[n].body = Member.body
  BY <1>1 DEF AddsFile
<1>3. Len(MemberPlace) > 1
  BY <1>1
<1>4. IsFiniteSet(ReadFiles) /\ n \notin ReadFiles
  <2>1. Len(files) \in Nat /\ DOMAIN files = 1 .. Len(files)
    BY DEF ScanInv, ScanTypeOK
  <2>2. IsFiniteSet(DOMAIN files)
    BY <2>1, FS_Interval
  <2> QED
    BY <1>2, <2>2, FS_Subset DEF ReadFiles
<1> HIDE DEF n
<1>5. ReadFiles' = ReadFiles \cup {n}
  <2> SUFFICES ASSUME NEW i PROVE i \in ReadFiles' <=> i \in ReadFiles \/ i = n
    OBVIOUS
  <2>1. i \in ReadFiles <=> i \in DOMAIN files /\ Len(files[i].path) > 1
    BY DEF ReadFiles
  <2>2. i \in ReadFiles' <=> i \in DOMAIN files' /\ Len(files'[i].path) > 1
    BY DEF ReadFiles
  <2>3. CASE i = n
    BY <1>2, <1>3, <2>2, <2>3
  <2>4. CASE i # n /\ i \in DOMAIN files
    <3>1. files'[i].path = files[i].path /\ i \in DOMAIN files'
      BY <1>2, <2>4
    <3> QED
      BY <2>1, <2>2, <2>4, <3>1
  <2>5. CASE i # n /\ i \notin DOMAIN files
    BY <1>2, <2>1, <2>2, <2>5
  <2> QED
    BY <2>3, <2>4, <2>5
<1>6. Cardinality(ReadFiles') = Cardinality(ReadFiles) + 1
  BY <1>4, <1>5, FS_AddElement
<1>7. ExpandedBytes(files', ReadFiles') = ExpandedBytes(files, ReadFiles) + SizeOf(files', n)
  <2>1. \A i \in ReadFiles : SizeOf(files, i) \in Nat /\ SizeOf(files', i) = SizeOf(files, i)
    BY <1>2, FilePathIs, ContentsAre DEF ReadFiles, SizeOf, ScanInv
  <2>2. SizeOf(files', n) \in Nat
    BY <1>1, <1>2, ContentsAre DEF SizeOf
  <2>3. ExpandedBytes(files', ReadFiles \cup {n}) = ExpandedBytes(files, ReadFiles) + SizeOf(files', n)
    BY <1>4, <2>1, <2>2, OneMoreFile
  <2> QED
    BY <1>5, <2>3
<1>8. SizeOf(files', n) = Contents[Member.body].size
  BY <1>2 DEF SizeOf
<1>9. /\ budget.members < MaxMemberCount
      /\ budget.bytes + Contents[Member.body].size <= MaxTotalExpanded
      /\ budget'.members = budget.members + 1
      /\ budget'.bytes = budget.bytes + Contents[Member.body].size
  BY DEF ReadsMember
<1>10. /\ budget.members \in Nat /\ MaxMemberCount \in Nat
       /\ Cardinality(ReadFiles) = budget.members /\ ExpandedBytes(files, ReadFiles) = budget.bytes
  BY LimitsAssumption DEF ScanInv, ScanTypeOK, Budgeted
<1>11. budget'.members <= MaxMemberCount /\ budget'.bytes <= MaxTotalExpanded
  BY <1>9, <1>10
<1>12. Cardinality(ReadFiles') = budget'.members
  BY <1>6, <1>9, <1>10
<1>13. ExpandedBytes(files', ReadFiles') = budget'.bytes
  BY <1>7, <1>8, <1>9, <1>10
<1> QED
  BY <1>11, <1>12, <1>13 DEF Budgeted

LEMMA MemberKeepsInv ==
  ASSUME ScanInv, ScanMember
  PROVE  ScanInv'
<1>1. /\ stack # <<>> /\ Top.rest # <<>> /\ listing' = listing /\ ScanTypeOK'
      /\ Member \in Members /\ MemberPlace \in Seq(Segments)
  BY MemberStep DEF ScanInv
<1>2. PICK frames, moved : /\ MovesOn(frames, moved)
                           /\ \/ PassesMember(frames, moved)
                              \/ RefusesMember(frames, moved)
                              \/ ReadsMember(frames, moved)
  BY MemberStep DEF ScanInv
<1>3. CASE PassesMember(frames, moved) \/ RefusesMember(frames, moved)
  BY <1>1, <1>2, <1>3, PassKeepsInv
<1>4. CASE ReadsMember(frames, moved)
  BY <1>1, <1>2, <1>4, ReadKeepsNames, ReadKeepsAccount, ReadKeepsBudget DEF ScanInv
<1> QED
  BY <1>2, <1>3, <1>4

(* An archive whose members were all read is closed.                       *)
LEMMA CloseKeepsInv ==
  ASSUME ScanInv, CloseArchive
  PROVE  ScanInv'
<1>1. /\ stack # <<>> /\ Top.rest = <<>> /\ stack' = Front(stack) /\ ScanTypeOK'
      /\ UNCHANGED <<listing, files, issues, budget, opened>>
  BY CloseStep DEF ScanInv
<1>2. /\ Len(stack) \in Nat \ {0} /\ DOMAIN stack = 1 .. Len(stack)
      /\ Front(stack) \in Seq(Frames) /\ Len(Front(stack)) = Len(stack) - 1
      /\ \A k \in 1 .. Len(stack) - 1 : Front(stack)[k] = stack[k]
  BY <1>1, TopIs DEF ScanInv
<1>3. DOMAIN stack' = 1 .. Len(stack) - 1
  BY <1>1, <1>2
<1>4. \A k \in DOMAIN stack' : k \in DOMAIN stack /\ stack'[k] = stack[k]
  BY <1>1, <1>2, <1>3
<1>5. \A k \in DOMAIN stack : k \in DOMAIN stack' \/ k = Len(stack)
  BY <1>2, <1>3
<1>6. NamesApart' /\ NestedFiles' /\ ZipsOpened' /\ Budgeted'
  BY <1>1 DEF ScanInv, NamesApart, NestedFiles, ZipsOpened, Budgeted, ReadFiles
<1>7. FramesNest' /\ SeenNames'
  BY <1>1, <1>4 DEF ScanInv, FramesNest, SeenNames
<1>8. Accounted'
  <2> SUFFICES ASSUME NEW a \in opened, NEW m \in Range(Contents[a.body].members), m.attr # "dir"
               PROVE  Covered(a, m)'
    BY <1>1 DEF Accounted
  <2>1. Covered(a, m)
    BY DEF ScanInv, Accounted
  <2>2. Range(<<>>) = {}
    BY DEF Range
  <2>3. Pending(a, m) => Pending(a, m)'
    BY <1>1, <1>4, <1>5, <2>2 DEF Pending, Top
  <2> QED
    BY <1>1, <2>1, <2>3 DEF Covered
<1> QED
  BY <1>1, <1>6, <1>7, <1>8 DEF ScanInv

(* A scan begins over a folder with every file once.                       *)
LEMMA BeginMakesInv ==
  ASSUME NEW d \in Drops \cup Series, BeginScan(d.files)
  PROVE  ScanInv'
<1>1. /\ listing' = d.files /\ files' = <<>> /\ issues' = <<>> /\ stack' = <<>> /\ opened' = {}
      /\ budget' = [members |-> 0, bytes |-> 0]
  BY DEF BeginScan
<1>2. d.files \in Seq(Listed)
  BY FolderIs
<1>3. /\ \A k, l \in DOMAIN d.files :
           d.files[k].path = d.files[l].path /\ d.files[k].ext = d.files[l].ext => k = l
  BY DropsAssumption
<1>4. ScanTypeOK'
  BY <1>1, <1>2 DEF ScanTypeOK
<1>5. DOMAIN files' = {} /\ DOMAIN stack' = {}
  BY <1>1
<1>6. NamesApart' /\ FramesNest' /\ SeenNames' /\ NestedFiles' /\ Accounted' /\ ZipsOpened'
  BY <1>1, <1>3, <1>5 DEF NamesApart, Named, FramesNest, SeenNames, NestedFiles, Accounted, ZipsOpened
<1>7. Budgeted'
  <2>1. ReadFiles' = {}
    BY <1>5 DEF ReadFiles
  <2>2. MaxMemberCount \in Nat /\ MaxTotalExpanded \in Nat
    BY LimitsAssumption
  <2>3. budget'.members = 0 /\ budget'.bytes = 0
    BY <1>1
  <2>4. ExpandedBytes(files', {}) = 0 /\ Cardinality({}) = 0
    BY NoFiles, FS_EmptySet
  <2> QED
    BY <2>1, <2>2, <2>3, <2>4 DEF Budgeted
<1> QED
  BY <1>4, <1>6, <1>7 DEF ScanInv

-----------------------------------------------------------------------------

LEMMA NothingScanned ==
  ASSUME listing = <<>>, files = <<>>, issues = <<>>, stack = <<>>, opened = {},
         budget = [members |-> 0, bytes |-> 0]
  PROVE  ScanInv
<1>1. ScanTypeOK
  BY DEF ScanTypeOK
<1>2. DOMAIN files = {} /\ DOMAIN stack = {} /\ DOMAIN listing = {}
  OBVIOUS
<1>3. NamesApart /\ FramesNest /\ SeenNames /\ NestedFiles /\ Accounted /\ ZipsOpened
  BY <1>2 DEF NamesApart, Named, FramesNest, SeenNames, NestedFiles, Accounted, ZipsOpened
<1>4. Budgeted
  <2>1. ReadFiles = {} /\ MaxMemberCount \in Nat /\ MaxTotalExpanded \in Nat
    BY <1>2, LimitsAssumption DEF ReadFiles
  <2>2. ExpandedBytes(files, {}) = 0 /\ Cardinality({}) = 0
    BY NoFiles, FS_EmptySet
  <2> QED
    BY <2>1, <2>2 DEF Budgeted
<1> QED
  BY <1>1, <1>3, <1>4 DEF ScanInv

(* Only the start of a command and the steps of a scan touch its state.    *)
LEMMA OthersKeepScan ==
  ASSUME [Next]_vars
  PROVE  \/ \E d \in Drops \cup Series : BeginScan(d.files)
         \/ ScanStep
         \/ UNCHANGED scanVars
<1>1. CASE \E d \in IF runs = 0 THEN Drops ELSE Series, m \in {"plan", "apply"} : Begin(d, m)
  BY <1>1 DEF Begin
<1>2. CASE Step
  BY <1>2 DEF Step, Scan, Plan, CopyItem, WriteManifests, RecordCapture, UpdateInventory, WriteReports
<1>3. CASE Crash
  BY <1>3 DEF Crash
<1>4. CASE UNCHANGED vars
  BY <1>4 DEF vars
<1> QED
  BY <1>1, <1>2, <1>3, <1>4 DEF Next

LEMMA ScanStays ==
  ASSUME ScanInv, UNCHANGED scanVars
  PROVE  ScanInv'
BY DEF scanVars, ScanInv, ScanTypeOK, NamesApart, FramesNest, SeenNames, NestedFiles, Accounted,
       Covered, Pending, ZipsOpened, Budgeted, ReadFiles

(* The invariant of a scan holds at every step of an intake, whatever the   *)
(* folders hold and however often commands run and die.                     *)
THEOREM ScanInductive == Spec => []ScanInv
<1>1. Init => ScanInv
  BY NothingScanned DEF Init
<1>2. ScanInv /\ [Next]_vars => ScanInv'
  BY OthersKeepScan, BeginMakesInv, FileKeepsInv, MemberKeepsInv, CloseKeepsInv, ScanStays
     DEF ScanStep
<1> QED
  BY <1>1, <1>2, PTL DEF Spec

LEMMA ScanInvIsComplete ==
  ASSUME ScanInv
  PROVE  ScanIsComplete
<1>1. MembersAccounted
  <2> SUFFICES ASSUME ScanDone
               PROVE  /\ \A a \in opened : \A m \in Range(Contents[a.body].members) :
                           m.attr # "dir" =>
                             LET path == Append(a.path, m.path) IN
                             \/ \E i \in DOMAIN files : files[i].path = path /\ files[i].ext = m.ext
                             \/ Reported(path, m.ext)
                             \/ Reported(a.path, "zip")
                      /\ \A i \in DOMAIN files : files[i].ext = "zip" =>
                           \/ \E a \in opened : a.path = files[i].path
                           \/ Reported(files[i].path, "zip")
    BY DEF MembersAccounted
  <2>1. DOMAIN stack = {}
    BY DEF ScanDone
  <2>2. ASSUME NEW a \in opened, NEW m \in Range(Contents[a.body].members), m.attr # "dir"
        PROVE  LET path == Append(a.path, m.path) IN
               \/ \E i \in DOMAIN files : files[i].path = path /\ files[i].ext = m.ext
               \/ Reported(path, m.ext)
               \/ Reported(a.path, "zip")
    BY <2>1, <2>2 DEF ScanInv, Accounted, Covered, Pending, Named, Reported
  <2>3. \A i \in DOMAIN files : files[i].ext = "zip" =>
          (\E a \in opened : a.path = files[i].path) \/ Reported(files[i].path, "zip")
    BY DEF ScanInv, ZipsOpened, Named, Reported
  <2> QED
    BY <2>2, <2>3
<1>2. ExpansionBounded
  BY DEF ScanInv, Budgeted, ReadFiles, NamesApart, ExpansionBounded
<1> QED
  BY <1>1, <1>2 DEF ScanIsComplete

(* Whatever the folder, its archives and the limits: a scan accounts for   *)
(* every member of every archive it opens, reads no more than the budget   *)
(* allows, and names no two files alike (read_archive_member,              *)
(* scan_zip_handle).                                                       *)
THEOREM ScansAreComplete == Spec => []ScanIsComplete
<1>1. Spec => []ScanInv
  BY ScanInductive
<1>2. ScanInv => ScanIsComplete
  BY ScanInvIsComplete
<1> QED
  BY <1>1, <1>2, PTL

-----------------------------------------------------------------------------
(* A planned row on its way through the capture and the package rules.     *)

Fields == {"file", "category", "role", "source", "label", "status", "bundle", "place", "period",
           "action", "placement", "review", "markers", "scope", "package", "primary", "related",
           "rowStatus", "target"}

(* What no later decision changes about a row.                             *)
Kept(a, b) ==
  /\ DOMAIN a = Fields /\ DOMAIN b = Fields
  /\ b.file = a.file /\ b.category = a.category /\ b.source = a.source
  /\ b.target = a.target /\ a.review \subseteq b.review

AllKept(old, new) ==
  DOMAIN new = DOMAIN old /\ \A k \in DOMAIN old : Kept(old[k], new[k])

LEMMA MixedKeeps ==
  ASSUME NEW rows, \A k \in DOMAIN rows : DOMAIN rows[k] = Fields
  PROVE  AllKept(rows, mark_mixed_source_capture_blocked(rows))
<1> SUFFICES ASSUME NEW k \in DOMAIN rows
             PROVE  Kept(rows[k], mark_mixed_source_capture_blocked(rows)[k])
  BY DEF AllKept, mark_mixed_source_capture_blocked
<1> DEFINE new == mark_mixed_source_capture_blocked(rows)[k]
<1>1. new = [rows[k] EXCEPT
               !.action = IF IsRaw(rows[k]) THEN "skip" ELSE @,
               !.placement = IF IsRaw(rows[k]) /\ rows[k].action = "copy"
                             THEN "mixed_source_capture_blocked" ELSE @,
               !.status = "capture_blocked", !.review = @ \cup {"mixed_source_capture"}]
  BY DEF mark_mixed_source_capture_blocked
<1> HIDE DEF new
<1>2. DOMAIN rows[k] = Fields
  OBVIOUS
<1>3. DOMAIN new = Fields
  BY <1>1, <1>2
<1>4. /\ new.file = rows[k].file /\ new.category = rows[k].category
      /\ new.source = rows[k].source /\ new.target = rows[k].target
  BY <1>1, <1>2 DEF Fields
<1>5. new.review = rows[k].review \cup {"mixed_source_capture"}
  BY <1>1, <1>2 DEF Fields
<1> QED
  BY <1>2, <1>3, <1>4, <1>5 DEF Kept, new

LEMMA MissingKeeps ==
  ASSUME NEW rows, \A k \in DOMAIN rows : DOMAIN rows[k] = Fields
  PROVE  AllKept(rows, mark_missing_source_raw_capture_blocked(rows))
<1> SUFFICES ASSUME NEW k \in DOMAIN rows
             PROVE  Kept(rows[k], mark_missing_source_raw_capture_blocked(rows)[k])
  BY DEF AllKept, mark_missing_source_raw_capture_blocked
<1> DEFINE new == mark_missing_source_raw_capture_blocked(rows)[k]
<1>1. new = [rows[k] EXCEPT !.status = "capture_blocked",
                            !.review = @ \cup {"missing_source_raw_capture"}]
  BY DEF mark_missing_source_raw_capture_blocked
<1> HIDE DEF new
<1>2. DOMAIN rows[k] = Fields
  OBVIOUS
<1>3. DOMAIN new = Fields
  BY <1>1, <1>2
<1>4. /\ new.file = rows[k].file /\ new.category = rows[k].category
      /\ new.source = rows[k].source /\ new.target = rows[k].target
  BY <1>1, <1>2 DEF Fields
<1>5. new.review = rows[k].review \cup {"missing_source_raw_capture"}
  BY <1>1, <1>2 DEF Fields
<1> QED
  BY <1>2, <1>3, <1>4, <1>5 DEF Kept, new

LEMMA NonMaterializedKeeps ==
  ASSUME NEW rows, \A k \in DOMAIN rows : DOMAIN rows[k] = Fields, NEW status, NEW placement
  PROVE  AllKept(rows, mark_non_materialized_capture_items(rows, status, placement))
<1> SUFFICES ASSUME NEW k \in DOMAIN rows
             PROVE  Kept(rows[k], mark_non_materialized_capture_items(rows, status, placement)[k])
  BY DEF AllKept, mark_non_materialized_capture_items
<1> DEFINE new == mark_non_materialized_capture_items(rows, status, placement)[k]
<1>1. new = [rows[k] EXCEPT !.action = "skip", !.status = status,
                 !.placement = IF rows[k].action = "copy" THEN placement ELSE @]
  BY DEF mark_non_materialized_capture_items
<1> HIDE DEF new
<1>2. DOMAIN rows[k] = Fields
  OBVIOUS
<1>3. DOMAIN new = Fields
  BY <1>1, <1>2
<1>4. /\ new.file = rows[k].file /\ new.category = rows[k].category
      /\ new.source = rows[k].source /\ new.target = rows[k].target
      /\ new.review = rows[k].review
  BY <1>1, <1>2 DEF Fields
<1> QED
  BY <1>2, <1>3, <1>4 DEF Kept, new

LEMMA RelabelledKeeps ==
  ASSUME NEW rows, \A k \in DOMAIN rows : DOMAIN rows[k] = Fields, NEW label
  PROVE  /\ AllKept(rows, Relabelled(rows, label))
         /\ \A k \in DOMAIN rows : /\ Relabelled(rows, label)[k].action = rows[k].action
                                   /\ IsRaw(rows[k]) => Relabelled(rows, label)[k].label = label
<1> SUFFICES ASSUME NEW k \in DOMAIN rows
             PROVE  /\ Kept(rows[k], Relabelled(rows, label)[k])
                    /\ Relabelled(rows, label)[k].action = rows[k].action
                    /\ IsRaw(rows[k]) => Relabelled(rows, label)[k].label = label
  BY DEF AllKept, Relabelled
<1> DEFINE new == Relabelled(rows, label)[k]
<1>1. new = IF IsRaw(rows[k]) THEN [rows[k] EXCEPT !.label = label] ELSE rows[k]
  BY DEF Relabelled
<1> HIDE DEF new
<1>2. DOMAIN rows[k] = Fields
  OBVIOUS
<1>3. DOMAIN new = Fields
  BY <1>1, <1>2
<1>4. /\ new.file = rows[k].file /\ new.category = rows[k].category
      /\ new.source = rows[k].source /\ new.target = rows[k].target
      /\ new.review = rows[k].review /\ new.action = rows[k].action
      /\ IsRaw(rows[k]) => new.label = label
  BY <1>1, <1>2 DEF Fields
<1> QED
  BY <1>2, <1>3, <1>4 DEF Kept, new

LEMMA KeptTwice ==
  ASSUME NEW a, NEW b, NEW c, AllKept(a, b), AllKept(b, c)
  PROVE  AllKept(a, c)
BY DEF AllKept, Kept

(* The rows of a plan that makes a capture: the raw ones that are not      *)
(* skipped are of its source, and go under its label.                      *)
MakesCapture(old, new, plan, d) ==
  /\ \A k \in DOMAIN old : /\ new[k].action = old[k].action
                           /\ IsRaw(old[k]) => new[k].label = plan.label
                           /\ IsRaw(old[k]) /\ old[k].action # "skip" => old[k].source = plan.source
  /\ \A k \in DOMAIN registry :
       registry[k].source = plan.source => registry[k].fingerprint # plan.fingerprint
  /\ plan.label = planned_capture_label(d, plan.source, plan.fingerprint)

LEMMA SmallSets ==
  ASSUME NEW S, IsFiniteSet(S), ~(Cardinality(S) > 1), NEW x \in S, NEW y \in S
  PROVE  x = y
<1>1. Cardinality(S) \in Nat /\ Cardinality(S) # 0
  BY FS_CardinalityType, FS_EmptySet
<1>2. Cardinality(S) = 1
  BY <1>1
<1>3. PICK z : S = {z}
  BY <1>2, FS_Singleton
<1> QED
  BY <1>3

LEMMA ImageIsFinite ==
  ASSUME NEW S, IsFiniteSet(S), NEW f
  PROVE  IsFiniteSet({f[x] : x \in S})
<1> DEFINE T == {f[x] : x \in S}
           g == [x \in S |-> f[x]]
<1>1. g \in Surjection(S, T)
  BY DEF Surjection
<1> HIDE DEF g, T
<1>2. IsFiniteSet(T)
  BY <1>1, FS_Surjection
<1> QED
  BY <1>2 DEF T

LEMMA SessionPlan ==
  ASSUME NEW rows, IsFiniteSet(DOMAIN rows), \A k \in DOMAIN rows : DOMAIN rows[k] = Fields, NEW d
  PROVE  LET built == build_capture_session_plan(rows, d) IN
         /\ AllKept(rows, built.rows)
         /\ built.plan.files = built.plan.fingerprint
         /\ Materializes(built.plan.status) => MakesCapture(rows, built.rows, built.plan, d)
<1> DEFINE all == {rows[k] : k \in DOMAIN rows}
           raw == {i \in all : IsRaw(i) /\ i.action # "skip"}
           sources == {i.source : i \in raw}
           source == CHOOSE s \in sources : TRUE
           fingerprint == manifest_fingerprint(raw)
           label == planned_capture_label(d, source, fingerprint)
           dated == {i \in raw : i.period.from # 0}
           from == IF dated = {} THEN 0 ELSE Min({i.period.from : i \in dated})
           to == IF dated = {} THEN 0 ELSE Max({i.period.to : i \in dated})
           known == {k \in DOMAIN registry : registry[k].source = source}
           duplicate == \E k \in known : registry[k].fingerprint = fingerprint
           overlap == \E k \in known : overlaps(from, to, registry[k])
           status == IF duplicate THEN "duplicate_blocked"
                     ELSE IF overlap THEN "overlap_review_required" ELSE "planned"
           built == build_capture_session_plan(rows, d)
           blocked == mark_non_materialized_capture_items(rows, "capture_blocked",
                                                          "capture_blocked_skip")
           doubled == mark_non_materialized_capture_items(Relabelled(rows, label),
                        "duplicate_blocked", "duplicate_capture_skip")
<1>1. built =
        IF Cardinality(sources) > 1
        THEN [rows |-> mark_mixed_source_capture_blocked(rows), plan |-> capture_blocked_plan]
        ELSE IF raw = {} /\ \E i \in all : IsRaw(i)
        THEN [rows |-> blocked, plan |-> capture_blocked_plan]
        ELSE IF raw = {}
        THEN [rows |-> mark_missing_source_raw_capture_blocked(rows), plan |-> capture_blocked_plan]
        ELSE [rows |-> IF duplicate THEN doubled ELSE Relabelled(rows, label),
              plan |-> Session(source, label, raw, fingerprint, status, from, to)]
  BY DEF build_capture_session_plan
<1>2. /\ IsFiniteSet(sources)
      /\ \A k \in DOMAIN rows : IsRaw(rows[k]) /\ rows[k].action # "skip" => rows[k].source \in sources
      /\ raw # {} => sources # {}
  <2>1. IsFiniteSet(all)
    BY ImageIsFinite
  <2>2. IsFiniteSet(raw)
    BY <2>1, FS_Subset
  <2> DEFINE f == [i \in raw |-> i.source]
  <2>3. {f[i] : i \in raw} = sources
    OBVIOUS
  <2> HIDE DEF f, raw
  <2>4. IsFiniteSet({f[i] : i \in raw})
    BY <2>2, ImageIsFinite
  <2>5. raw # {} => sources # {}
    OBVIOUS
  <2>6. \A i \in raw : i.source \in sources
    OBVIOUS
  <2> USE DEF raw
  <2>7. \A k \in DOMAIN rows : IsRaw(rows[k]) /\ rows[k].action # "skip" => rows[k] \in raw
    OBVIOUS
  <2> HIDE DEF raw, sources
  <2> QED
    BY <2>3, <2>4, <2>5, <2>6, <2>7
<1>3. duplicate <=> \E k \in DOMAIN registry : registry[k].source = source
                                               /\ registry[k].fingerprint = fingerprint
  OBVIOUS
<1>4. fingerprint = {i.file : i \in raw}
  BY DEF manifest_fingerprint
<1>5. duplicate => status = "duplicate_blocked"
  OBVIOUS
<1>6. source = CHOOSE s \in sources : TRUE
  OBVIOUS
<1>7. label = planned_capture_label(d, source, fingerprint)
  OBVIOUS
<1> HIDE DEF all, raw, sources, source, fingerprint, label, dated, from, to, known, duplicate,
             overlap, status, built, blocked, doubled
<1>8. /\ capture_blocked_plan.files = capture_blocked_plan.fingerprint
      /\ ~Materializes(capture_blocked_plan.status)
  BY DEF capture_blocked_plan, Session, Materializes
<1>9. CASE Cardinality(sources) > 1
  <2>1. built.rows = mark_mixed_source_capture_blocked(rows) /\ built.plan = capture_blocked_plan
    BY <1>1, <1>9
  <2> QED
    BY <1>8, <2>1, MixedKeeps DEF built
<1>10. CASE ~(Cardinality(sources) > 1) /\ raw = {}
  <2>1. /\ built.rows = blocked \/ built.rows = mark_missing_source_raw_capture_blocked(rows)
        /\ built.plan = capture_blocked_plan
    BY <1>1, <1>10
  <2>2. AllKept(rows, blocked) /\ AllKept(rows, mark_missing_source_raw_capture_blocked(rows))
    BY NonMaterializedKeeps, MissingKeeps DEF blocked
  <2>3. AllKept(rows, built.rows)
    BY <2>1, <2>2
  <2> QED
    BY <1>8, <2>1, <2>3 DEF built
<1>11. CASE ~(Cardinality(sources) > 1) /\ raw # {}
  <2> DEFINE plan == Session(source, label, raw, fingerprint, status, from, to)
  <2>1. /\ built.rows = IF duplicate THEN doubled ELSE Relabelled(rows, label)
        /\ built.plan = plan
    BY <1>1, <1>11
  <2>2. /\ plan.source = source /\ plan.label = label /\ plan.files = {i.file : i \in raw}
        /\ plan.fingerprint = fingerprint /\ plan.status = status
    BY DEF Session
  <2>3. /\ AllKept(rows, Relabelled(rows, label))
        /\ \A k \in DOMAIN rows : /\ Relabelled(rows, label)[k].action = rows[k].action
                                  /\ IsRaw(rows[k]) => Relabelled(rows, label)[k].label = label
    BY RelabelledKeeps
  <2>4. AllKept(Relabelled(rows, label), doubled)
    BY <2>3, NonMaterializedKeeps DEF doubled, AllKept, Kept
  <2>5. AllKept(rows, built.rows)
    BY <2>1, <2>3, <2>4, KeptTwice
  <2>6. built.plan.files = built.plan.fingerprint
    BY <1>4, <2>1, <2>2
  <2>7. ASSUME Materializes(built.plan.status) PROVE MakesCapture(rows, built.rows, built.plan, d)
    <3>1. ~duplicate
      BY <1>5, <2>1, <2>2, <2>7 DEF Materializes
    <3>2. built.rows = Relabelled(rows, label)
      BY <2>1, <3>1
    <3>3. source \in sources
      BY <1>2, <1>6, <1>11
    <3>4. \A k \in DOMAIN rows : IsRaw(rows[k]) /\ rows[k].action # "skip" => rows[k].source = source
      BY <1>2, <1>11, <3>3, SmallSets
    <3> QED
      BY <1>3, <1>7, <2>1, <2>2, <2>3, <3>1, <3>2, <3>4 DEF MakesCapture
  <2> QED
    BY <2>5, <2>6, <2>7 DEF built
<1> QED
  BY <1>9, <1>10, <1>11

(* The package rules skip rows, and never bring a skipped one back.        *)
LEMMA DecisionSkips ==
  ASSUME NEW row, DOMAIN row = Fields, NEW k, NEW x
  PROVE  with_decision(row, k, x).action \in {"skip", row.action}
<1>1. with_decision(row, k, x).action \in {"skip", row.action}
  BY DEF with_decision, Fields
<1> QED
  BY <1>1

LEMMA RulesSkip ==
  ASSUME NEW rows, \A k \in DOMAIN rows : DOMAIN rows[k] = Fields, NEW k \in DOMAIN rows, IsRaw(rows[k])
  PROVE  apply_package_rules(rows)[k].action \in {"skip", rows[k].action}
<1>1. \E x : apply_package_rules(rows)[k] = with_decision(rows[k], k, x)
  BY DEF apply_package_rules
<1> QED
  BY <1>1, DecisionSkips

(* What with_rules leaves of a row.                                        *)
LEMMA RulesKeep ==
  ASSUME NEW row, DOMAIN row = Fields, NEW t
  PROVE  LET i == with_rules(row, t) IN
         /\ i.file = row.file /\ i.category = row.category /\ i.source = row.source
         /\ row.review \subseteq i.review /\ i.action = t.action
         /\ ~IsRaw(row) => i.target = row.target
         /\ IsRaw(row) => i.target.source = row.source /\ i.target.label = row.label
<1> DEFINE i == with_rules(row, t)
           bundle == IF t.rowStatus = "package_merge_into_primary" THEN t.primary ELSE row.bundle
           codes == CASE t.package = "overlap_partial_review" -> {"package_overlap_review"}
                      [] t.package = "mixed_cycle_review" -> {"package_cycle_mixed"}
                      [] OTHER -> {}
           target == IF IsRaw(row)
                     THEN source_raw_target_path(row.source, row.label, bundle, row.place, row.file.ext)
                     ELSE row.target
<1>1. i = [row EXCEPT !.package = t.package, !.primary = t.primary, !.related = t.related,
              !.rowStatus = t.rowStatus, !.action = t.action, !.placement = t.placement,
              !.bundle = bundle, !.review = @ \cup codes, !.target = target]
  BY DEF with_rules
<1>2. IsRaw(row) => target.source = row.source /\ target.label = row.label
  BY DEF source_raw_target_path
<1>3. ~IsRaw(row) => target = row.target
  OBVIOUS
<1> HIDE DEF i, bundle, codes, target
<1>4. /\ i.file = row.file /\ i.category = row.category /\ i.source = row.source
      /\ i.review = row.review \cup codes /\ i.action = t.action /\ i.target = target
  BY <1>1 DEF Fields
<1> QED
  BY <1>2, <1>3, <1>4 DEF i

-----------------------------------------------------------------------------
(* The rows of a drop, planned.                                            *)

LEMMA PlannedItem ==
  ASSUME NEW f, NEW d, NEW context
  PROVE  LET i == build_planned_item(f, d, context) IN
         /\ DOMAIN i = Fields /\ i.file = f
         /\ resolve_overlap_review(f, i.source) \subseteq i.review
         /\ ~IsRaw(i) => \E x : i.target.label = <<x>>
<1> DEFINE facts == inspect_intake_file(f)
           route == route_intake_file(f)
           label == resolve_source_label(f, d, route, facts, context)
           bundle == bundle_id(f)
           place == bundle_relative_path(f)
           target == IF route.category = "source_raw"
                     THEN source_raw_target_path(label.source, <<0, 0>>, bundle, place, f.ext)
                     ELSE OtherTarget(f, route, label.source)
           i == build_planned_item(f, d, context)
<1>1. i = [file |-> f, category |-> route.category, role |-> route.role, source |-> label.source,
   label |-> <<route.label, 0>>, status |-> "planned", bundle |-> bundle, place |-> place,
   period |-> facts.period, action |-> IF label.blocked THEN "skip" ELSE "copy",
   placement |-> IF label.blocked THEN "mapping_blocked_skip" ELSE "planned_copy",
   review |-> label.review \cup resolve_overlap_review(f, label.source),
   markers |-> Markers(f, d), scope |-> facts.scope,
   package |-> "primary", primary |-> bundle, related |-> {}, rowStatus |-> "package_keep",
   target |-> target]
  BY DEF build_planned_item
<1>2. route.category # "source_raw" => target = OtherTarget(f, route, label.source)
  OBVIOUS
<1>3. OtherTarget(f, route, label.source).label = <<route.label>>
  BY DEF OtherTarget
<1> HIDE DEF facts, route, label, bundle, place, target, i
<1>4. /\ i.file = f /\ i.category = route.category /\ i.source = label.source
      /\ i.review = label.review \cup resolve_overlap_review(f, label.source) /\ i.target = target
  BY <1>1
<1>5. DOMAIN i = Fields
  BY <1>1 DEF Fields
<1>6. ~IsRaw(i) => \E x : i.target.label = <<x>>
  BY <1>2, <1>3, <1>4 DEF IsRaw
<1> QED
  BY <1>4, <1>5, <1>6 DEF i

LEMMA MaxOfOne ==
  ASSUME NEW k \in Int
  PROVE  Max({k}) = k
BY DEF Max

PlannedRows(d, context) == [k \in DOMAIN files |-> build_planned_item(files[k], d, context)]

(* What a drop's rows are once the capture and the package rules are done. *)
ItemsFit(rows, plan) ==
  /\ DOMAIN rows = DOMAIN files
  /\ \A k \in DOMAIN files :
       /\ rows[k].file = files[k]
       /\ resolve_overlap_review(files[k], rows[k].source) \subseteq rows[k].review
       /\ ~IsRaw(rows[k]) => \E x : rows[k].target.label = <<x>>
       /\ Materializes(plan.status) /\ IsRaw(rows[k]) =>
            /\ rows[k].target.label = plan.label
            /\ rows[k].action = "copy"
               /\ (\A j \in DOMAIN files : source_path(files[j]) = source_path(files[k]) => files[j] = files[k])
               => rows[k].target.source = plan.source

LEMMA RowsAreFinite ==
  ASSUME ScanTypeOK
  PROVE  IsFiniteSet(DOMAIN files) /\ \A k \in DOMAIN files : k \in Nat \ {0}
<1>1. Len(files) \in Nat /\ DOMAIN files = 1 .. Len(files)
  BY DEF ScanTypeOK
<1>2. IsFiniteSet(DOMAIN files)
  BY <1>1, FS_Interval
<1>3. \A k \in DOMAIN files : k \in Nat \ {0}
  BY <1>1
<1> QED
  BY <1>2, <1>3

LEMMA PlanItems ==
  ASSUME ScanInv, NEW d, NEW context
  PROVE  LET built == build_capture_session_plan(PlannedRows(d, context), d)
             rows == apply_package_rules_to_items(built.rows) IN
         /\ ItemsFit(rows, built.plan)
         /\ built.plan.files = built.plan.fingerprint
         /\ Materializes(built.plan.status) =>
              /\ \A k \in DOMAIN registry : registry[k].source = built.plan.source
                                             => registry[k].fingerprint # built.plan.fingerprint
              /\ built.plan.label = planned_capture_label(d, built.plan.source, built.plan.fingerprint)
<1> DEFINE orig == PlannedRows(d, context)
           built == build_capture_session_plan(orig, d)
           mid == built.rows
           plan == built.plan
           ruled == apply_package_rules(mid)
           rows == apply_package_rules_to_items(mid)
           Twin(k) == Max({j \in DOMAIN mid : source_path(mid[j].file) = source_path(mid[k].file)})
<1>1. DOMAIN orig = DOMAIN files /\ IsFiniteSet(DOMAIN files) /\ \A k \in DOMAIN files : k \in Nat \ {0}
  BY RowsAreFinite DEF PlannedRows, ScanInv
<1>2. \A k \in DOMAIN files :
        /\ DOMAIN orig[k] = Fields /\ orig[k].file = files[k]
        /\ resolve_overlap_review(files[k], orig[k].source) \subseteq orig[k].review
        /\ ~IsRaw(orig[k]) => \E x : orig[k].target.label = <<x>>
  BY PlannedItem DEF PlannedRows
<1>3. rows = [k \in DOMAIN mid |-> with_rules(mid[k], ruled[Twin(k)])]
  BY DEF apply_package_rules_to_items, with_rules_of_path
<1> HIDE DEF orig
<1>4. /\ AllKept(orig, mid) /\ plan.files = plan.fingerprint
      /\ Materializes(plan.status) => MakesCapture(orig, mid, plan, d)
  BY <1>1, <1>2, SessionPlan
<1> HIDE DEF built, mid, plan, ruled, rows
<1>5. /\ DOMAIN mid = DOMAIN files
      /\ \A k \in DOMAIN files : Kept(orig[k], mid[k])
  BY <1>1, <1>4 DEF AllKept
<1>6. ASSUME NEW k \in DOMAIN files
      PROVE  /\ rows[k].file = mid[k].file /\ rows[k].category = mid[k].category
             /\ rows[k].source = mid[k].source
             /\ mid[k].review \subseteq rows[k].review /\ rows[k].action = ruled[Twin(k)].action
             /\ ~IsRaw(mid[k]) => rows[k].target = mid[k].target
             /\ IsRaw(mid[k]) => rows[k].target.source = mid[k].source
                                  /\ rows[k].target.label = mid[k].label
  <2>1. DOMAIN mid[k] = Fields
    BY <1>5 DEF Kept
  <2>2. rows[k] = with_rules(mid[k], ruled[Twin(k)])
    BY <1>3, <1>5
  <2> HIDE DEF Twin
  <2> QED
    BY <2>1, <2>2, RulesKeep
<1>7. ASSUME NEW k \in DOMAIN files,
             \A j \in DOMAIN files : source_path(files[j]) = source_path(files[k]) => files[j] = files[k]
      PROVE  Twin(k) = k
  <2>1. \A j \in DOMAIN files : mid[j].file = files[j]
    BY <1>2, <1>5 DEF Kept
  <2>2. \A j \in DOMAIN files : files[j] = files[k] => j = k
    BY DEF ScanInv, NamesApart
  <2>3. {j \in DOMAIN mid : source_path(mid[j].file) = source_path(mid[k].file)} = {k}
    <3>1. DOMAIN mid = DOMAIN files
      BY <1>5
    <3>2. \A j \in DOMAIN files : source_path(mid[j].file) = source_path(mid[k].file) => j = k
      BY <1>7, <2>1, <2>2
    <3> QED
      BY <3>1, <3>2
  <2>4. k \in Int
    BY <1>1
  <2> QED
    BY <2>3, <2>4, MaxOfOne
<1> HIDE DEF Twin
<1>8. ItemsFit(rows, plan)
  <2>1. DOMAIN rows = DOMAIN files
    BY <1>3, <1>5
  <2>2. ASSUME NEW k \in DOMAIN files
        PROVE  /\ rows[k].file = files[k]
               /\ resolve_overlap_review(files[k], rows[k].source) \subseteq rows[k].review
               /\ ~IsRaw(rows[k]) => \E x : rows[k].target.label = <<x>>
    BY <1>2, <1>5, <1>6 DEF Kept, IsRaw
  <2>3. ASSUME NEW k \in DOMAIN files, Materializes(plan.status), IsRaw(rows[k])
        PROVE  rows[k].target.label = plan.label
    <3>1. IsRaw(orig[k]) /\ IsRaw(mid[k])
      BY <1>5, <1>6, <2>3 DEF Kept, IsRaw
    <3>2. mid[k].label = plan.label
      BY <1>1, <1>4, <2>3, <3>1 DEF MakesCapture
    <3> QED
      BY <1>6, <3>1, <3>2
  <2>4. ASSUME NEW k \in DOMAIN files, Materializes(plan.status), IsRaw(rows[k]),
               rows[k].action = "copy",
               \A j \in DOMAIN files : source_path(files[j]) = source_path(files[k]) => files[j] = files[k]
        PROVE  rows[k].target.source = plan.source
    <3>1. IsRaw(orig[k]) /\ IsRaw(mid[k])
      BY <1>5, <1>6, <2>4 DEF Kept, IsRaw
    <3>2. ruled[k].action = "copy"
      BY <1>6, <1>7, <2>4
    <3>3. \A j \in DOMAIN mid : DOMAIN mid[j] = Fields
      BY <1>5 DEF Kept
    <3>4. ruled[k].action \in {"skip", mid[k].action}
      BY <1>5, <3>1, <3>3, RulesSkip DEF ruled
    <3>5. orig[k].action = "copy"
      BY <1>1, <1>4, <2>4, <3>2, <3>4 DEF MakesCapture
    <3>6. orig[k].source = plan.source
      BY <1>1, <1>4, <2>4, <3>1, <3>5 DEF MakesCapture
    <3> QED
      BY <1>5, <1>6, <3>1, <3>6 DEF Kept
  <2> QED
    BY <2>1, <2>2, <2>3, <2>4 DEF ItemsFit
<1>9. Materializes(plan.status) =>
        /\ \A k \in DOMAIN registry : registry[k].source = plan.source
                                       => registry[k].fingerprint # plan.fingerprint
        /\ plan.label = planned_capture_label(d, plan.source, plan.fingerprint)
  BY <1>4 DEF MakesCapture
<1> QED
  BY <1>4, <1>8, <1>9 DEF rows, mid, plan, built, orig

-----------------------------------------------------------------------------
(* Times overlap themselves.                                               *)

LEMMA GreatestNatural ==
  ASSUME NEW S \in SUBSET Nat, IsFiniteSet(S), S # {}
  PROVE  Max(S) \in S /\ \A y \in S : y <= Max(S)
<1> DEFINE Above(x) == {y \in S : y > x}
           Counts == {n \in Nat : \E x \in S : Cardinality(Above(x)) = n}
<1>1. \A x \in S : IsFiniteSet(Above(x)) /\ Cardinality(Above(x)) \in Nat
  BY FS_Subset, FS_CardinalityType
<1>2. Counts \in SUBSET Nat /\ Counts # {}
  <2>1. PICK x \in S : TRUE
    OBVIOUS
  <2>2. Cardinality(Above(x)) \in Counts
    BY <1>1, <2>1
  <2> QED
    BY <2>2
<1>3. /\ \A n \in Counts : \E x \in S : Cardinality(Above(x)) = n
      /\ \A x \in S : Cardinality(Above(x)) \in Counts
  BY <1>1
<1> HIDE DEF Counts
<1>4. PICK n \in Counts : \A m \in Counts : n <= m
  BY <1>2, LeastNatural
<1>5. PICK x \in S : Cardinality(Above(x)) = n
  BY <1>3, <1>4
<1>6. ASSUME NEW y \in S, y > x PROVE FALSE
  <2>1. y \in Nat /\ x \in Nat
    OBVIOUS
  <2>2. Above(y) \subseteq Above(x) \ {y} /\ y \in Above(x)
    <3>1. ASSUME NEW z \in S, z > y PROVE z > x /\ z # y
      BY <1>6, <2>1, <3>1
    <3>2. y \in Above(x)
      BY <1>6
    <3> QED
      BY <3>1, <3>2
  <2> HIDE DEF Above
  <2>3. /\ IsFiniteSet(Above(x) \ {y})
        /\ Cardinality(Above(x) \ {y}) = Cardinality(Above(x)) - 1
    BY <1>1, <2>2, FS_RemoveElement
  <2>4. Cardinality(Above(y)) <= Cardinality(Above(x) \ {y})
    BY <2>2, <2>3, FS_Subset
  <2>5. Cardinality(Above(y)) \in Nat /\ Cardinality(Above(x)) \in Nat
    BY <1>1
  <2>6. Cardinality(Above(y)) \in Counts
    BY <1>3
  <2>7. n <= Cardinality(Above(y))
    BY <1>4, <2>6
  <2> QED
    BY <1>5, <2>3, <2>4, <2>5, <2>7
<1>7. \A y \in S : x >= y
  BY <1>6
<1> QED
  BY <1>7 DEF Max

LEMMA LeastIsMin ==
  ASSUME NEW S \in SUBSET Nat, S # {}
  PROVE  Min(S) \in S /\ \A y \in S : Min(S) <= y
<1>1. PICK x \in S : \A y \in S : x <= y
  BY LeastNatural
<1> QED
  BY <1>1 DEF Min

LEMMA OverlapsItself ==
  ASSUME NEW c \in DOMAIN Contents, Contents[c].times # {}
  PROVE  Overlapping(Contents[c].times, Contents[c].times)
<1> DEFINE S == Contents[c].times
<1>1. S \in SUBSET Nat /\ IsFiniteSet(S) /\ S # {}
  BY TimesAssumption
<1> HIDE DEF S
<1>2. Max(S) \in S /\ Min(S) \in S /\ Min(S) <= Max(S)
  BY <1>1, GreatestNatural, LeastIsMin
<1>3. Max(S) \in Nat /\ Min(S) \in Nat
  BY <1>1, <1>2
<1>4. ~(Max(S) < Min(S))
  BY <1>2, <1>3
<1> QED
  BY <1>1, <1>4 DEF Overlapping, S

(* Bytes of the same source that are already stored count as an overlap.   *)
LEMMA SameBytesOverlap ==
  ASSUME NEW f, f.body \in DOMAIN Contents, Times(f) # {}, NEW source,
         NEW x \in store, x.at.source = source, x.body = f.body, x.at.ext = f.ext
  PROVE  resolve_overlap_review(f, source) # {}
<1>1. f.ext = "csv" /\ Times(f) = Contents[f.body].times
  BY DEF Times
<1>2. Overlapping(Times(f), Contents[x.body].times)
  BY <1>1, OverlapsItself
<1>3. capture_overlap(f, source)
  BY <1>1, <1>2 DEF capture_overlap
<1> QED
  BY <1>3 DEF resolve_overlap_review

LEMMA ListedBytesOverlap ==
  ASSUME NEW f, NEW source, NEW r \in manifests, r.body = f.body
  PROVE  resolve_overlap_review(f, source) # {}
<1>1. manifest_overlap(f)
  BY DEF manifest_overlap
<1> QED
  BY <1>1 DEF resolve_overlap_review

-----------------------------------------------------------------------------
(* The labels of captures, and the inductive invariant of the commands.    *)

Labels == (Nat \X Nat) \ {<<0, 0>>}
Used(l) ==
  \/ \E x \in store : x.at.label = l
  \/ \E k \in DOMAIN registry : registry[k].label = l

(* The label of a capture at work counts from the plan on.                 *)
AtWork == phase \notin {"idle", "scan"}
Taken == {l \in Labels : Used(l)} \cup (IF AtWork THEN {session.label} ELSE {})

(* Every run takes one label at most, so that a free one is left.          *)
LabelsBounded ==
  /\ IsFiniteSet(Taken)
  /\ Cardinality(Taken) <= IF phase = "scan" THEN runs - 1 ELSE runs

ClocksAndCounts ==
  /\ phase \in {"idle", "scan", "copy", "record", "inventory", "report"}
  /\ runs \in Nat /\ runs <= MaxRuns /\ now \in Nat \ {0} /\ next \in Nat \ {0}
  /\ registry \in Seq(Range(registry)) /\ items \in Seq(Range(items))

OthersUnlabelled ==
  phase = "copy" => \A i \in Range(items) : ~IsRaw(i) => i.target.label \notin Labels

Fingerprinted ==
  /\ \A k \in DOMAIN registry : registry[k].files = registry[k].fingerprint
  /\ AtWork => session.files = session.fingerprint

(* A capture at work has a fingerprint its source has not had.             *)
NewFingerprint ==
  phase \in {"copy", "record"} /\ Materializes(session.status) =>
    \A k \in DOMAIN registry :
      registry[k].source = session.source => registry[k].fingerprint # session.fingerprint

CaptureInv ==
  /\ ClocksAndCounts /\ LabelsBounded /\ OthersUnlabelled /\ Fingerprinted /\ NewFingerprint
  /\ OwnFolder /\ CapturedOnce /\ OneCapturePerRun /\ RecaptureReviewed

LEMMA FreshLabel ==
  ASSUME ClocksAndCounts, LabelsBounded, phase = "scan", NEW source
  PROVE  ~capture_label_exists(source, next_capture_label(source))
<1> DEFINE L == {l \in Labels : Used(l)}
           f == [k \in 0 .. MaxRuns |-> <<now, k>>]
           Free == {k \in 0 .. MaxRuns : ~capture_label_exists(source, <<now, k>>)}
<1>1. runs \in Nat /\ runs <= MaxRuns /\ MaxRuns \in Nat /\ now \in Nat \ {0}
  BY RunsAssumption DEF ClocksAndCounts
<1>2. Taken = L
  BY DEF Taken, AtWork
<1> HIDE DEF L
<1>3. IsFiniteSet(L) /\ Cardinality(L) <= runs - 1 /\ Cardinality(L) \in Nat
  BY <1>2, FS_CardinalityType DEF LabelsBounded
<1>4. Free # {}
  <2> SUFFICES ASSUME Free = {} PROVE FALSE
    OBVIOUS
  <2>1. \A k \in 0 .. MaxRuns : <<now, k>> \in L
    <3> SUFFICES ASSUME NEW k \in 0 .. MaxRuns PROVE <<now, k>> \in L
      OBVIOUS
    <3>1. capture_label_exists(source, <<now, k>>)
      OBVIOUS
    <3>2. Used(<<now, k>>)
      BY <3>1 DEF capture_label_exists, Used
    <3>3. <<now, k>> \in Labels
      BY <1>1 DEF Labels
    <3> QED
      BY <3>2, <3>3 DEF L
  <2>2. f \in [0 .. MaxRuns -> L]
    BY <2>1
  <2>3. \A j, k \in 0 .. MaxRuns : f[j] = f[k] => j = k
    OBVIOUS
  <2>4. IsFiniteSet(0 .. MaxRuns) /\ Cardinality(0 .. MaxRuns) = MaxRuns + 1
    <3>1. 0 \in Int /\ MaxRuns \in Int /\ ~(0 > MaxRuns) /\ MaxRuns - 0 + 1 = MaxRuns + 1
      BY <1>1
    <3>2. /\ IsFiniteSet(0 .. MaxRuns)
          /\ Cardinality(0 .. MaxRuns) = IF 0 > MaxRuns THEN 0 ELSE MaxRuns - 0 + 1
      BY <3>1, FS_Interval
    <3> QED
      BY <3>1, <3>2
  <2>5. Cardinality(L) < Cardinality(0 .. MaxRuns)
    BY <1>1, <1>3, <2>4
  <2> DEFINE N == 0 .. MaxRuns
  <2>6. /\ f \in [N -> L] /\ IsFiniteSet(N) /\ Cardinality(L) < Cardinality(N)
        /\ \A j, k \in N : f[j] = f[k] => j = k
    BY <2>2, <2>3, <2>4, <2>5
  <2> HIDE DEF f, N
  <2>7. \E j, k \in N : j # k /\ f[j] = f[k]
    BY <1>3, <2>6, FS_PigeonHole
  <2> QED
    BY <2>6, <2>7
<1>5. Free \in SUBSET Nat
  OBVIOUS
<1>6. \A k \in 0 .. MaxRuns : k \in Free <=> ~capture_label_exists(source, <<now, k>>)
  OBVIOUS
<1>7. \A k \in Free : k \in 0 .. MaxRuns
  OBVIOUS
<1> HIDE DEF Free
<1>8. PICK k \in Free : \A j \in Free : k <= j
  BY <1>4, <1>5, LeastNatural
<1>9. \A j \in 0 .. k - 1 : capture_label_exists(source, <<now, j>>)
  <2> SUFFICES ASSUME NEW j \in 0 .. k - 1, ~capture_label_exists(source, <<now, j>>) PROVE FALSE
    OBVIOUS
  <2>1. k \in 0 .. MaxRuns
    BY <1>7
  <2>2. j \in 0 .. MaxRuns /\ ~(k <= j)
    BY <1>1, <2>1
  <2> QED
    BY <1>6, <1>8, <2>2
<1>10. \E l \in {<<now, j>> : j \in 0 .. MaxRuns} :
         /\ ~capture_label_exists(source, l)
         /\ \A j \in 0 .. l[2] - 1 : capture_label_exists(source, <<now, j>>)
  <2>1. <<now, k>> \in {<<now, j>> : j \in 0 .. MaxRuns} /\ <<now, k>>[2] = k
    BY <1>7
  <2> QED
    BY <1>6, <1>7, <1>9, <2>1
<1> QED
  BY <1>10 DEF next_capture_label

LEMMA PlannedLabelIsFree ==
  ASSUME ClocksAndCounts, LabelsBounded, phase = "scan", NEW d, NEW source, NEW fingerprint
  PROVE  ~capture_label_exists(source, planned_capture_label(d, source, fingerprint))
BY FreshLabel DEF planned_capture_label

-----------------------------------------------------------------------------
(* What the steps of a command preserve.                                   *)

LEMMA AppendOwn ==
  ASSUME NEW s, s \in Seq(Range(s)), NEW x
  PROVE  /\ Append(s, x) \in Seq(Range(Append(s, x)))
         /\ DOMAIN Append(s, x) = DOMAIN s \cup {Len(s) + 1} /\ Len(s) + 1 \notin DOMAIN s
         /\ Len(s) \in Nat /\ DOMAIN s = 1 .. Len(s)
         /\ \A i \in DOMAIN s : Append(s, x)[i] = s[i]
         /\ Append(s, x)[Len(s) + 1] = x
<1> DEFINE S == Range(s) \cup {x}
<1>1. s \in Seq(S) /\ x \in S /\ Len(s) \in Nat /\ DOMAIN s = 1 .. Len(s)
  OBVIOUS
<1> HIDE DEF S
<1>2. /\ Append(s, x) \in Seq(S)
      /\ DOMAIN Append(s, x) = DOMAIN s \cup {Len(s) + 1} /\ Len(s) + 1 \notin DOMAIN s
      /\ \A i \in DOMAIN s : Append(s, x)[i] = s[i]
      /\ Append(s, x)[Len(s) + 1] = x
  BY <1>1, AppendIs
<1>3. Append(s, x) \in Seq(Range(Append(s, x)))
  BY <1>2, RangeHolds
<1> QED
  BY <1>1, <1>2, <1>3

LEMMA TakenStays ==
  ASSUME LabelsBounded, phase # "scan", phase' # "scan", runs' = runs, Taken' \subseteq Taken,
         runs \in Nat
  PROVE  LabelsBounded'
<1>1. IsFiniteSet(Taken) /\ Cardinality(Taken) <= runs /\ Cardinality(Taken) \in Nat
  BY FS_CardinalityType DEF LabelsBounded
<1>2. IsFiniteSet(Taken') /\ Cardinality(Taken') <= Cardinality(Taken) /\ Cardinality(Taken') \in Nat
  BY <1>1, FS_Subset, FS_CardinalityType
<1>3. Cardinality(Taken') <= runs
  BY <1>1, <1>2
<1> QED
  BY <1>2, <1>3 DEF LabelsBounded

LEMMA InitCaptures ==
  ASSUME Init
  PROVE  CaptureInv
<1>1. /\ phase = "idle" /\ runs = 0 /\ now = 1 /\ next = 1 /\ registry = <<>> /\ items = <<>>
      /\ store = {} /\ MaxRuns \in Nat
  BY RunsAssumption DEF Init
<1>2. <<>> \in Seq(Range(<<>>)) /\ DOMAIN registry = {}
  BY <1>1
<1>3. Taken = {}
  BY <1>1, <1>2 DEF Taken, AtWork, Used
<1>4. LabelsBounded
  BY <1>1, <1>3, FS_EmptySet DEF LabelsBounded
<1> QED
  BY <1>1, <1>2, <1>4 DEF CaptureInv, ClocksAndCounts, OthersUnlabelled, Fingerprinted, NewFingerprint,
     AtWork, OwnFolder, CapturedOnce, OneCapturePerRun, RecaptureReviewed

LEMMA BeginKeepsCaptures ==
  ASSUME CaptureInv, NEW d, NEW m, Begin(d, m)
  PROVE  CaptureInv'
<1>1. /\ phase = "idle" /\ runs < MaxRuns /\ phase' = "scan" /\ runs' = runs + 1
      /\ now' \in {now, now + 1}
      /\ UNCHANGED <<items, session, next, store, manifests, registry>>
  BY DEF Begin, workspaceVars
<1>2. ClocksAndCounts'
  BY <1>1, RunsAssumption DEF CaptureInv, ClocksAndCounts
<1>3. Taken' = Taken
  BY <1>1 DEF Taken, AtWork, Used
<1>4. IsFiniteSet(Taken) /\ Cardinality(Taken) <= runs /\ runs \in Nat
  BY <1>1 DEF CaptureInv, ClocksAndCounts, LabelsBounded
<1>5. runs' - 1 = runs
  BY <1>1, <1>4
<1>6. LabelsBounded'
  BY <1>1, <1>3, <1>4, <1>5 DEF LabelsBounded
<1> QED
  BY <1>1, <1>2, <1>6 DEF CaptureInv, OthersUnlabelled, Fingerprinted, NewFingerprint,
     AtWork, OwnFolder, CapturedOnce, OneCapturePerRun, RecaptureReviewed

LEMMA IdleKeepsCaptures ==
  ASSUME CaptureInv, UNCHANGED planVars
  PROVE  CaptureInv'
BY DEF planVars, CaptureInv, ClocksAndCounts, LabelsBounded, Taken, AtWork, Used, OthersUnlabelled,
   Fingerprinted, NewFingerprint, OwnFolder, capture_label_exists, CapturedOnce, OneCapturePerRun,
   Copied, Untwinned, RecaptureReviewed

(* The steps after the copy loop, and a crash: nothing is planned or       *)
(* copied, and no label is taken.                                          *)
LEMMA LaterKeepsCaptures ==
  ASSUME CaptureInv, phase # "scan", phase' \in {"record", "inventory", "report", "idle"},
         session' = session \/ phase' = "idle",
         UNCHANGED <<next, store, registry, now, runs>>,
         items' = items \/ items' = <<>>,
         phase' = "record" => phase = "copy",
         phase' \in {"record", "inventory", "report"} => AtWork
  PROVE  CaptureInv'
<1>1. ClocksAndCounts'
  <2>1. items' \in Seq(Range(items'))
    <3>1. CASE items' = items
      BY <3>1 DEF CaptureInv, ClocksAndCounts
    <3>2. CASE items' = <<>>
      <4>1. <<>> \in Seq(Range(<<>>))
        OBVIOUS
      <4> QED
        BY <3>2, <4>1
    <3> QED
      BY <3>1, <3>2
  <2>2. registry' \in Seq(Range(registry'))
    BY DEF CaptureInv, ClocksAndCounts
  <2>3. /\ phase' \in {"idle", "scan", "copy", "record", "inventory", "report"}
        /\ runs' \in Nat /\ runs' <= MaxRuns /\ now' \in Nat \ {0} /\ next' \in Nat \ {0}
    BY DEF CaptureInv, ClocksAndCounts
  <2> QED
    BY <2>1, <2>2, <2>3 DEF ClocksAndCounts
<1>2. Taken' \subseteq Taken
  BY DEF Taken, AtWork, Used
<1>3. LabelsBounded'
  BY <1>2, TakenStays DEF CaptureInv, ClocksAndCounts
<1>4. Fingerprinted' /\ NewFingerprint'
  BY DEF CaptureInv, Fingerprinted, NewFingerprint, AtWork
<1>5. CapturedOnce'
  BY DEF CaptureInv, CapturedOnce
<1>6. OthersUnlabelled' /\ OwnFolder' /\ OneCapturePerRun' /\ RecaptureReviewed'
  BY DEF OthersUnlabelled, OwnFolder, OneCapturePerRun, RecaptureReviewed
<1> QED
  BY <1>1, <1>3, <1>4, <1>5, <1>6 DEF CaptureInv

LEMMA CopyKeepsCaptures ==
  ASSUME CaptureInv, CopyItem
  PROVE  CaptureInv'
<1> DEFINE i == items[next]
<1>1. /\ phase = "copy" /\ next <= Len(items) /\ next' = next + 1
      /\ UNCHANGED <<phase, items, session, manifests, registry, now, runs>>
      /\ \A x \in store' : x \in store \/ (Copied(i) /\ x.at = i.target)
  BY DEF CopyItem
<1>2. ClocksAndCounts'
  BY <1>1 DEF CaptureInv, ClocksAndCounts
<1>3. i \in Range(items)
  <2>1. items \in Seq(Range(items)) /\ next \in Nat \ {0}
    BY DEF CaptureInv, ClocksAndCounts
  <2>2. next \in DOMAIN items
    BY <1>1, <2>1
  <2> QED
    BY <2>2 DEF Range
<1> HIDE DEF i
<1>4. Taken' \subseteq Taken
  <2> SUFFICES ASSUME NEW l \in Taken' PROVE l \in Taken
    OBVIOUS
  <2>1. CASE l = session.label
    BY <1>1, <2>1 DEF Taken, AtWork
  <2>2. CASE l \in Labels /\ \E x \in store' : x.at.label = l
    <3>1. PICK x \in store' : x.at.label = l
      BY <2>2
    <3>2. CASE x \in store
      BY <2>2, <3>1, <3>2 DEF Taken, Used
    <3>3. CASE Copied(i) /\ x.at = i.target
      <4>1. IsRaw(i)
        BY <1>1, <1>3, <2>2, <3>1, <3>3 DEF CaptureInv, OthersUnlabelled
      <4>2. l = session.label
        BY <1>1, <1>3, <3>1, <3>3, <4>1 DEF CaptureInv, OneCapturePerRun
      <4> QED
        BY <2>1, <4>2
    <3> QED
      BY <1>1, <3>2, <3>3
  <2>3. CASE l \in Labels /\ \E k \in DOMAIN registry' : registry'[k].label = l
    BY <1>1, <2>3 DEF Taken, Used
  <2> QED
    BY <1>1, <2>1, <2>2, <2>3 DEF Taken, AtWork, Used
<1>5. LabelsBounded'
  BY <1>1, <1>4, TakenStays DEF CaptureInv, ClocksAndCounts
<1>6. next' # 1
  BY <1>1 DEF CaptureInv, ClocksAndCounts
<1>7. OwnFolder' /\ RecaptureReviewed'
  BY <1>6 DEF OwnFolder, RecaptureReviewed
<1>8. OthersUnlabelled' /\ Fingerprinted' /\ NewFingerprint' /\ CapturedOnce' /\ OneCapturePerRun'
  BY <1>1 DEF CaptureInv, OthersUnlabelled, Fingerprinted, NewFingerprint, AtWork, CapturedOnce,
     OneCapturePerRun, Copied, Untwinned
<1> QED
  BY <1>2, <1>5, <1>7, <1>8 DEF CaptureInv

LEMMA RecordKeepsCaptures ==
  ASSUME CaptureInv, RecordCapture
  PROVE  CaptureInv'
<1> DEFINE row == [source |-> session.source, files |-> session.files,
                    fingerprint |-> session.fingerprint, from |-> session.from, to |-> session.to,
                    status |-> session.status,
                    label |-> IF Materializes(session.status) THEN session.label ELSE <<0, 0>>]
           n == Len(registry) + 1
<1>1. /\ phase = "record" /\ phase' = "inventory"
      /\ registry' = registry \/ registry' = Append(registry, row)
      /\ UNCHANGED <<items, session, next, store, now, runs>>
  BY DEF RecordCapture
<1>2. /\ row.source = session.source /\ row.files = session.files
      /\ row.fingerprint = session.fingerprint /\ row.status = session.status
      /\ row.label \in {session.label, <<0, 0>>}
  OBVIOUS
<1> HIDE DEF row
<1>3. CASE registry' = registry
  BY <1>1, <1>3, LaterKeepsCaptures DEF AtWork
<1>4. CASE registry' = Append(registry, row)
  <2>1. /\ DOMAIN registry' = DOMAIN registry \cup {n} /\ n \notin DOMAIN registry
        /\ \A k \in DOMAIN registry : registry'[k] = registry[k] /\ k < n /\ k \in Nat
        /\ registry'[n] = row /\ registry' \in Seq(Range(registry')) /\ n \in Nat
    <3>1. registry \in Seq(Range(registry))
      BY DEF CaptureInv, ClocksAndCounts
    <3>2. /\ registry' \in Seq(Range(registry'))
          /\ DOMAIN registry' = DOMAIN registry \cup {n} /\ n \notin DOMAIN registry
          /\ Len(registry) \in Nat /\ DOMAIN registry = 1 .. Len(registry)
          /\ \A k \in DOMAIN registry : registry'[k] = registry[k]
          /\ registry'[n] = row
      BY <1>4, <3>1, AppendOwn
    <3>3. \A k \in DOMAIN registry : k < n /\ k \in Nat
      BY <3>2
    <3> QED
      BY <3>2, <3>3
  <2> HIDE DEF n
  <2>2. ClocksAndCounts'
    BY <1>1, <2>1 DEF CaptureInv, ClocksAndCounts
  <2>3. Taken' \subseteq Taken
    <3> SUFFICES ASSUME NEW l \in Taken' PROVE l \in Taken
      OBVIOUS
    <3>1. l = session.label \/ (l \in Labels /\ Used(l)')
      BY <1>1 DEF Taken, AtWork
    <3>2. CASE l = session.label
      BY <1>1, <3>2 DEF Taken, AtWork
    <3>3. CASE l \in Labels /\ Used(l)'
      <4>1. \/ \E x \in store : x.at.label = l
            \/ \E k \in DOMAIN registry' : registry'[k].label = l
        BY <1>1, <3>3 DEF Used
      <4>2. Used(l) \/ row.label = l
        BY <2>1, <4>1 DEF Used
      <4>3. l # <<0, 0>>
        BY <3>3 DEF Labels
      <4> QED
        BY <1>2, <3>2, <3>3, <4>2, <4>3 DEF Taken
    <3> QED
      BY <3>1, <3>2, <3>3
  <2>4. LabelsBounded'
    BY <1>1, <2>3, TakenStays DEF CaptureInv, ClocksAndCounts
  <2>5. session.files = session.fingerprint
    BY <1>1 DEF CaptureInv, Fingerprinted, AtWork
  <2>6. Fingerprinted'
    BY <1>1, <1>2, <2>1, <2>5 DEF CaptureInv, Fingerprinted
  <2>7. CapturedOnce'
    <3> SUFFICES ASSUME NEW j \in DOMAIN registry', NEW k \in DOMAIN registry',
                        j < k, Materializes(registry'[j].status), Materializes(registry'[k].status),
                        registry'[j].source = registry'[k].source
                 PROVE  registry'[j].files # registry'[k].files
      BY DEF CapturedOnce
    <3>1. CASE k \in DOMAIN registry /\ j \in DOMAIN registry
      BY <2>1, <3>1 DEF CaptureInv, CapturedOnce
    <3>2. CASE k = n /\ j \in DOMAIN registry
      <4>1. registry[j].source = session.source /\ Materializes(session.status)
        BY <1>2, <2>1, <3>2
      <4>2. registry[j].fingerprint # session.fingerprint
        BY <1>1, <3>2, <4>1 DEF CaptureInv, NewFingerprint
      <4>3. registry[j].files = registry[j].fingerprint
        BY <3>2 DEF CaptureInv, Fingerprinted
      <4> QED
        BY <1>2, <2>1, <2>5, <3>2, <4>2, <4>3
    <3>3. j # n
      <4>1. k = n \/ k < n
        BY <2>1
      <4>2. k \in Nat /\ n \in Nat
        BY <2>1
      <4> QED
        BY <4>1, <4>2
    <3> QED
      BY <2>1, <3>1, <3>2, <3>3
  <2>8. OthersUnlabelled' /\ OwnFolder' /\ OneCapturePerRun' /\ RecaptureReviewed' /\ NewFingerprint'
    BY <1>1 DEF OthersUnlabelled, OwnFolder, OneCapturePerRun, RecaptureReviewed, NewFingerprint
  <2> QED
    BY <2>2, <2>4, <2>6, <2>7, <2>8 DEF CaptureInv
<1> QED
  BY <1>1, <1>3, <1>4

-----------------------------------------------------------------------------

LEMMA OneLabelMore ==
  ASSUME NEW S, IsFiniteSet(S), NEW n \in Nat, Cardinality(S) <= n - 1, NEW x,
         NEW T, T \subseteq S \cup {x}
  PROVE  IsFiniteSet(T) /\ Cardinality(T) <= n
<1> DEFINE U == S \cup {x}
<1>1. /\ IsFiniteSet(U) /\ Cardinality(S) \in Nat
      /\ Cardinality(U) = Cardinality(S) \/ Cardinality(U) = Cardinality(S) + 1
  BY FS_AddElement, FS_CardinalityType
<1> HIDE DEF U
<1>2. T \subseteq U
  BY DEF U
<1>3. IsFiniteSet(T) /\ Cardinality(T) <= Cardinality(U) /\ Cardinality(T) \in Nat
  BY <1>1, <1>2, FS_Subset, FS_CardinalityType
<1>4. Cardinality(U) <= n /\ Cardinality(U) \in Nat
  BY <1>1
<1> QED
  BY <1>3, <1>4

(* What a plan sets up: the rows, and the capture they make.               *)
LEMMA PlanSets ==
  ASSUME ScanInv, Plan
  PROVE  /\ phase = "scan" /\ phase' \in {"report", "copy"} /\ next' = 1
         /\ UNCHANGED <<scanVars, store, manifests, registry, inventory, now, runs>>
         /\ ItemsFit(items', session')
         /\ session'.files = session'.fingerprint
         /\ Materializes(session'.status) =>
              /\ \A k \in DOMAIN registry : registry[k].source = session'.source
                                             => registry[k].fingerprint # session'.fingerprint
              /\ session'.label = planned_capture_label(drop, session'.source, session'.fingerprint)
         /\ items' \in Seq(Range(items'))
<1> DEFINE context == load_source_label_context(drop.labels)
           built == build_capture_session_plan(PlannedRows(drop, context), drop)
           rows == apply_package_rules_to_items(built.rows)
<1>1. /\ phase = "scan" /\ phase' \in {"report", "copy"} /\ next' = 1
      /\ items' = rows /\ session' = built.plan
      /\ UNCHANGED <<scanVars, store, manifests, registry, inventory, now, runs>>
  BY DEF Plan, workspaceVars, PlannedRows
<1>2. /\ ItemsFit(rows, built.plan) /\ built.plan.files = built.plan.fingerprint
      /\ Materializes(built.plan.status) =>
           /\ \A k \in DOMAIN registry : registry[k].source = built.plan.source
                                          => registry[k].fingerprint # built.plan.fingerprint
           /\ built.plan.label = planned_capture_label(drop, built.plan.source, built.plan.fingerprint)
  <2> HIDE DEF context
  <2> QED
    BY PlanItems
<1>3. rows = [k \in DOMAIN rows |-> rows[k]]
  BY DEF apply_package_rules_to_items, with_rules_of_path
<1> HIDE DEF built, rows
<1>4. rows \in Seq(Range(rows))
  <2>1. DOMAIN rows = 1 .. Len(files) /\ Len(files) \in Nat
    <3>1. DOMAIN files = 1 .. Len(files) /\ Len(files) \in Nat
      BY DEF ScanInv, ScanTypeOK
    <3> QED
      BY <1>2, <3>1 DEF ItemsFit
  <2>2. \A k \in DOMAIN rows : rows[k] \in Range(rows)
    BY DEF Range
  <2>3. rows \in [1 .. Len(files) -> Range(rows)]
    BY <1>3, <2>1, <2>2
  <2> HIDE DEF rows
  <2> QED
    BY <2>1, <2>3
<1> QED
  BY <1>1, <1>2, <1>4

LEMMA PlanKeepsCaptures ==
  ASSUME ScanInv, CaptureInv, Plan
  PROVE  CaptureInv'
<1>1. /\ phase = "scan" /\ phase' \in {"report", "copy"} /\ next' = 1
      /\ UNCHANGED <<scanVars, store, manifests, registry, inventory, now, runs>>
      /\ ItemsFit(items', session')
      /\ session'.files = session'.fingerprint
      /\ Materializes(session'.status) =>
           /\ \A k \in DOMAIN registry : registry[k].source = session'.source
                                          => registry[k].fingerprint # session'.fingerprint
           /\ session'.label = planned_capture_label(drop, session'.source, session'.fingerprint)
      /\ items' \in Seq(Range(items'))
  BY PlanSets
<1>2. files' = files
  BY <1>1 DEF scanVars
<1>3. \A i \in Range(items') : \E k \in DOMAIN files : i = items'[k]
  BY <1>1 DEF ItemsFit, Range
<1>4. ASSUME NEW k \in DOMAIN files
      PROVE  /\ items'[k].file = files[k] /\ items'[k] \in Range(items')
             /\ resolve_overlap_review(files[k], items'[k].source) \subseteq items'[k].review
             /\ ~IsRaw(items'[k]) => \E x : items'[k].target.label = <<x>>
             /\ Materializes(session'.status) /\ IsRaw(items'[k]) =>
                  /\ items'[k].target.label = session'.label
                  /\ items'[k].action = "copy"
                     /\ (\A j \in DOMAIN files : source_path(files[j]) = source_path(files[k]) => files[j] = files[k])
                     => items'[k].target.source = session'.source
  BY <1>1 DEF ItemsFit, Range
<1>5. ClocksAndCounts'
  BY <1>1 DEF CaptureInv, ClocksAndCounts
<1>6. LabelsBounded'
  <2>1. IsFiniteSet(Taken) /\ Cardinality(Taken) <= runs - 1 /\ runs \in Nat
    BY <1>1 DEF CaptureInv, ClocksAndCounts, LabelsBounded
  <2>2. Taken' \subseteq Taken \cup {session'.label}
    BY <1>1 DEF Taken, AtWork, Used
  <2>3. IsFiniteSet(Taken') /\ Cardinality(Taken') <= runs
    BY <2>1, <2>2, OneLabelMore
  <2> QED
    BY <1>1, <2>3 DEF LabelsBounded
<1>7. OthersUnlabelled'
  <2> SUFFICES ASSUME NEW i \in Range(items'), ~IsRaw(i)
               PROVE  i.target.label \notin Labels
    BY DEF OthersUnlabelled
  <2>1. PICK k \in DOMAIN files : i = items'[k]
    BY <1>3
  <2>2. PICK x : i.target.label = <<x>>
    BY <1>4, <2>1
  <2>3. <<x>> \notin Nat \X Nat
    OBVIOUS
  <2> QED
    BY <2>2, <2>3 DEF Labels
<1>8. Fingerprinted' /\ NewFingerprint'
  BY <1>1 DEF CaptureInv, Fingerprinted, NewFingerprint
<1>9. OwnFolder'
  <2> SUFFICES ASSUME Materializes(session'.status), capture_label_exists(session.source, session.label)'
               PROVE  FALSE
    BY DEF OwnFolder
  <2>1. ~capture_label_exists(session'.source, session'.label)
    BY <1>1, PlannedLabelIsFree DEF CaptureInv
  <2> QED
    BY <1>1, <2>1 DEF capture_label_exists
<1>10. CapturedOnce'
  BY <1>1 DEF CaptureInv, CapturedOnce
<1>11. OneCapturePerRun'
  <2> SUFFICES ASSUME NEW i \in Range(items'), IsRaw(i), Copied(i)'
               PROVE  /\ i.target.label = session'.label
                      /\ Untwinned(i)' => i.target.source = session'.source
    BY DEF OneCapturePerRun
  <2>1. PICK k \in DOMAIN files : i = items'[k]
    BY <1>3
  <2>2. i.action = "copy" /\ Materializes(session'.status)
    BY DEF Copied
  <2>3. ASSUME Untwinned(i)'
        PROVE  \A j \in DOMAIN files : source_path(files[j]) = source_path(files[k]) => files[j] = files[k]
    <3>1. \A j \in Range(items') : source_path(j.file) = source_path(i.file) => j.file = i.file
      BY <2>3 DEF Untwinned
    <3>2. \A j \in DOMAIN files : items'[j] \in Range(items') /\ items'[j].file = files[j]
      BY <1>4
    <3> QED
      BY <2>1, <3>1, <3>2
  <2> QED
    BY <1>4, <2>1, <2>2, <2>3
<1>12. RecaptureReviewed'
  <2> SUFFICES ASSUME NEW i \in Range(items'), IsRaw(i)
               PROVE  /\ (\E r \in manifests' : r.body = i.file.body) => i.review # {}
                      /\ (\E x \in store' : /\ x.at.source = i.source
                                            /\ x.body = i.file.body /\ x.at.ext = i.file.ext
                                            /\ Times(i.file) # {})
                           => i.review # {}
    BY DEF RecaptureReviewed
  <2>1. PICK k \in DOMAIN files : i = items'[k]
    BY <1>3
  <2>2. /\ i.file = files[k] /\ i.file.body \in DOMAIN Contents
        /\ resolve_overlap_review(i.file, i.source) \subseteq i.review
    BY <1>4, <2>1, FilePathIs DEF ScanInv
  <2>3. ASSUME NEW r \in manifests, r.body = i.file.body PROVE i.review # {}
    BY <2>2, <2>3, ListedBytesOverlap
  <2>4. ASSUME NEW x \in store, x.at.source = i.source, x.body = i.file.body,
               x.at.ext = i.file.ext, Times(i.file) # {}
        PROVE  i.review # {}
    BY <2>2, <2>4, SameBytesOverlap
  <2> QED
    BY <1>1, <2>3, <2>4
<1> QED
  BY <1>5, <1>6, <1>7, <1>8, <1>9, <1>10, <1>11, <1>12 DEF CaptureInv

-----------------------------------------------------------------------------
(* Every step of an intake, in any phase, keeps the captures apart.        *)
LEMMA NextKeepsCaptures ==
  ASSUME ScanInv, CaptureInv, [Next]_vars
  PROVE  CaptureInv'
<1>1. CASE \E d \in IF runs = 0 THEN Drops ELSE Series, m \in {"plan", "apply"} : Begin(d, m)
  BY <1>1, BeginKeepsCaptures
<1>2. CASE Scan
  BY <1>2, IdleKeepsCaptures DEF Scan
<1>3. CASE Plan
  BY <1>3, PlanKeepsCaptures
<1>4. CASE CopyItem
  BY <1>4, CopyKeepsCaptures
<1>5. CASE RecordCapture
  BY <1>5, RecordKeepsCaptures
<1>6. CASE WriteManifests
  BY <1>6, LaterKeepsCaptures DEF WriteManifests, AtWork
<1>7. CASE UpdateInventory
  BY <1>7, LaterKeepsCaptures DEF UpdateInventory, AtWork
<1>8. CASE WriteReports
  BY <1>8, LaterKeepsCaptures DEF WriteReports, AtWork
<1>9. CASE Crash
  BY <1>9, LaterKeepsCaptures DEF Crash, workspaceVars, AtWork
<1>10. CASE UNCHANGED vars
  BY <1>10, IdleKeepsCaptures DEF vars
<1> QED
  BY <1>1, <1>2, <1>3, <1>4, <1>5, <1>6, <1>7, <1>8, <1>9, <1>10 DEF Next, Step

(* The scan and the captures together are inductive: labels stay few       *)
(* enough for a free one, and fingerprints are new when they are planned.  *)
THEOREM CapturesInductive == Spec => [](ScanInv /\ CaptureInv)
<1>1. Init => CaptureInv
  BY InitCaptures
<1>2. ScanInv /\ CaptureInv /\ [Next]_vars => CaptureInv'
  BY NextKeepsCaptures
<1>3. Spec => []ScanInv
  BY ScanInductive
<1> QED
  BY <1>1, <1>2, <1>3, PTL DEF Spec

(* However many commands run, die and run again over one workspace: every  *)
(* capture gets a folder no run has written to, the same files are never   *)
(* captured twice for a source, and an apply copies raw rows into its own  *)
(* capture only (planned_capture_label, next_capture_label,                *)
(* build_capture_session_plan).                                            *)
THEOREM CapturesStayApart == Spec => []CapturesApart
<1>1. CaptureInv => CapturesApart
  BY DEF CaptureInv, CapturesApart
<1> QED
  BY <1>1, CapturesInductive, PTL

(* An apply that sets out to copy bytes a manifest lists, or that a dead   *)
(* run left in the folder of the same source, has a review code on the row *)
(* (resolve_overlap_review): no later decision of the capture or of the    *)
(* package rules takes it off again.                                       *)
THEOREM RecapturesReviewed == Spec => []RecaptureReviewed
<1>1. CaptureInv => RecaptureReviewed
  BY DEF CaptureInv
<1> QED
  BY <1>1, CapturesInductive, PTL
=============================================================================
