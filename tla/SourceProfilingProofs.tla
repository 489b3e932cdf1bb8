----------------------- MODULE SourceProfilingProofs -----------------------
(***************************************************************************)
(* Proofs about SourceProfiling, for any exports: the dates of a regular   *)
(* export are not read in the other format, and the rows of a translated   *)
(* capture are booked when their provider says they happened.              *)
(***************************************************************************)
EXTENDS SourceProfiling, FiniteSetTheorems, WellFoundedInduction, TLAPS

-----------------------------------------------------------------------------
(* Filtered: the function it is computed with, and what it keeps.          *)

LEMMA FromZero ==
  ASSUME NEW n \in Nat, NEW G, 0 \in G, \A i \in 0 .. n : i \in G /\ i < n => i + 1 \in G
  PROVE  0 .. n \subseteq G
<1> DEFINE Bad == {i \in 0 .. n : i \notin G}
           Less == OpToRel(<, Nat)
<1> SUFFICES ASSUME Bad # {} PROVE FALSE
  OBVIOUS
<1>1. IsWellFoundedOn(Less, Nat)
  BY NatLessThanWellFounded
<1>2. Less = {pair \in Nat \X Nat : pair[1] < pair[2]}
  BY DEF OpToRel
<1>3. Bad \in SUBSET Nat
  OBVIOUS
<1> HIDE DEF Less
<1>4. PICK i \in Bad : \A j \in Bad : ~(<< j, i >> \in Less)
  <2> HIDE DEF Bad
  <2> QED
    BY <1>1, <1>3, WFMin
<1>5. i \in 0 .. n /\ i \notin G /\ i # 0
  OBVIOUS
<1>6. i - 1 \in 0 .. n /\ i - 1 < n /\ (i - 1) + 1 = i /\ i \in Nat /\ i - 1 \in Nat /\ i - 1 < i
  BY <1>5
<1>7. << i - 1, i >> \in Less
  BY <1>2, <1>6
<1>8. i - 1 \notin Bad
  BY <1>4, <1>7
<1> QED
  BY <1>5, <1>6, <1>8

Chooses(g, s, b, n) ==
  g = [i \in 0 .. n |->
        IF i = 0 THEN << >> ELSE IF b[i] THEN Append(g[i - 1], s[i]) ELSE g[i - 1]]

LEMMA ChoiceExists ==
  ASSUME NEW s, NEW b, NEW n \in Nat
  PROVE  \E g : Chooses(g, s, b, n)
<1> DEFINE G == {m \in 0 .. n : \E g : Chooses(g, s, b, m)}
<1>1. Chooses([i \in 0 .. 0 |-> << >>], s, b, 0)
  BY DEF Chooses
<1>2. ASSUME NEW m \in 0 .. n, m < n, NEW f, Chooses(f, s, b, m)
      PROVE  \E g : Chooses(g, s, b, m + 1)
  <2> DEFINE last_ == IF b[m + 1] THEN Append(f[m], s[m + 1]) ELSE f[m]
             g == [i \in 0 .. m + 1 |-> IF i = m + 1 THEN last_ ELSE f[i]]
  <2> HIDE DEF last_
  <2>1. \A i \in 0 .. m + 1 : i = m + 1 \/ i \in 0 .. m
    OBVIOUS
  <2>2. \A i \in 0 .. m : g[i] = f[i]
                          /\ f[i] = IF i = 0 THEN << >>
                                    ELSE IF b[i] THEN Append(f[i - 1], s[i]) ELSE f[i - 1]
    <3>1. \A i \in 0 .. m : f[i] = IF i = 0 THEN << >>
                                   ELSE IF b[i] THEN Append(f[i - 1], s[i]) ELSE f[i - 1]
      BY <1>2, Zenon DEF Chooses
    <3>2. \A i \in 0 .. m : i \in 0 .. m + 1 /\ i # m + 1
      OBVIOUS
    <3> QED
      BY <3>1, <3>2, Zenon
  <2>3. m + 1 # 0 /\ g[m + 1] = last_ /\ g[(m + 1) - 1] = f[m]
    <3>1. m \in Nat /\ m + 1 \in 0 .. m + 1 /\ m + 1 # 0 /\ (m + 1) - 1 = m /\ m \in 0 .. m
      OBVIOUS
    <3>2. g[m] = f[m]
      BY <2>2, <3>1
    <3>3. g[m + 1] = last_
      BY <3>1, Zenon
    <3> QED
      BY <3>1, <3>2, <3>3, Zenon
  <2>4. g = [i \in 0 .. m + 1 |-> g[i]]
    OBVIOUS
  <2> HIDE DEF g
  <2>5. ASSUME NEW i \in 0 .. m + 1
        PROVE  g[i] = IF i = 0 THEN << >> ELSE IF b[i] THEN Append(g[i - 1], s[i]) ELSE g[i - 1]
    <3>1. CASE i = m + 1
      BY <2>3, <3>1, Zenon DEF last_
    <3>2. CASE i \in 0 .. m
      <4>1. i # 0 => i - 1 \in 0 .. m
        BY <3>2
      <4>2. i # 0 => g[i - 1] = f[i - 1]
        BY <2>2, <4>1
      <4> QED
        BY <2>2, <3>2, <4>2, Zenon
    <3> QED
      BY <2>1, <3>1, <3>2
  <2>6. Chooses(g, s, b, m + 1)
    BY <2>4, <2>5, Zenon DEF Chooses
  <2> QED
    BY <2>6
<1>3. 0 \in G
  BY <1>1
<1>4. ASSUME NEW m \in 0 .. n, m \in G, m < n PROVE m + 1 \in G
  <2>1. m + 1 \in 0 .. n
    BY <1>4
  <2>2. PICK f : Chooses(f, s, b, m)
    BY <1>4
  <2> QED
    BY <1>2, <1>4, <2>1, <2>2
<1> HIDE DEF G
<1>5. 0 .. n \subseteq G
  BY <1>3, <1>4, FromZero
<1>6. n \in G
  BY <1>5
<1> QED
  BY <1>6 DEF G

(* What is chosen are elements of the list, at places that pass.           *)
LEMMA ChoiceKeeps ==
  ASSUME NEW S, NEW s \in Seq(S), NEW b, NEW g, Chooses(g, s, b, Len(s))
  PROVE  /\ g[Len(s)] \in Seq(S) /\ Len(g[Len(s)]) <= Len(s)
         /\ \A k \in 1 .. Len(g[Len(s)]) : \E i \in 1 .. Len(s) : b[i] /\ g[Len(s)][k] = s[i]
<1> DEFINE n == Len(s)
           Kept(i) == /\ g[i] \in Seq(S) /\ Len(g[i]) <= i
                      /\ \A k \in 1 .. Len(g[i]) : \E j \in 1 .. i : b[j] /\ g[i][k] = s[j]
           G == {i \in 0 .. n : Kept(i)}
<1>1. n \in Nat /\ \A i \in 1 .. n : s[i] \in S
  OBVIOUS
<1>2. \A i \in 0 .. n : g[i] = IF i = 0 THEN << >>
                               ELSE IF b[i] THEN Append(g[i - 1], s[i]) ELSE g[i - 1]
  BY Zenon DEF Chooses
<1>3. 0 \in G
  <2>1. g[0] = << >> /\ 0 \in 0 .. n
    BY <1>1, <1>2
  <2>2. << >> \in Seq(S) /\ Len(<< >>) = 0
    OBVIOUS
  <2>3. Kept(0)
    BY <2>1, <2>2
  <2> QED
    BY <2>1, <2>3
<1>4. ASSUME NEW i \in 0 .. n, i \in G, i < n PROVE i + 1 \in G
  <2>1. i + 1 \in 0 .. n /\ i + 1 # 0 /\ (i + 1) - 1 = i /\ s[i + 1] \in S
    BY <1>1, <1>4
  <2>2. g[i + 1] = IF b[i + 1] THEN Append(g[i], s[i + 1]) ELSE g[i]
    BY <1>2, <2>1
  <2>3. Kept(i)
    BY <1>4
  <2> DEFINE h == g[i]
  <2>4. CASE b[i + 1]
    <3>1. g[i + 1] = Append(h, s[i + 1])
      BY <2>2, <2>4
    <3>2. h \in Seq(S) /\ Len(h) <= i
      BY <2>3
    <3>3. /\ Append(h, s[i + 1]) \in Seq(S) /\ Len(Append(h, s[i + 1])) = Len(h) + 1
          /\ \A k \in 1 .. Len(h) : Append(h, s[i + 1])[k] = h[k]
          /\ Append(h, s[i + 1])[Len(h) + 1] = s[i + 1]
      <4> HIDE DEF h
      <4> QED
        BY <2>1, <3>2
    <3>4. ASSUME NEW k \in 1 .. Len(h) + 1
          PROVE  \E j \in 1 .. i + 1 : b[j] /\ g[i + 1][k] = s[j]
      <4>1. CASE k = Len(h) + 1
        <5>1. i + 1 \in 1 .. i + 1
          BY <2>1, <1>4
        <5> QED
          BY <2>4, <3>1, <3>3, <4>1, <5>1
      <4>2. CASE k # Len(h) + 1
        <5>1. k \in 1 .. Len(h)
          BY <3>2, <4>2
        <5>2. PICK j \in 1 .. i : b[j] /\ h[k] = s[j]
          BY <2>3, <5>1
        <5>3. j \in 1 .. i + 1
          BY <1>4
        <5> QED
          BY <3>1, <3>3, <5>1, <5>2, <5>3
      <4> QED
        BY <4>1, <4>2
    <3>5. Len(h) + 1 <= i + 1
      BY <3>2, <1>4
    <3> HIDE DEF h
    <3>6. Kept(i + 1)
      BY <3>1, <3>3, <3>4, <3>5
    <3> QED
      BY <2>1, <3>6
  <2>5. CASE ~b[i + 1]
    <3>1. g[i + 1] = g[i]
      BY <2>2, <2>5
    <3>2. \A j \in 1 .. i : j \in 1 .. i + 1
      BY <1>4
    <3>3. Len(g[i]) <= i + 1
      BY <2>3, <1>4
    <3>4. Kept(i + 1)
      BY <2>3, <3>1, <3>2, <3>3
    <3> QED
      BY <2>1, <3>4
  <2> QED
    BY <2>4, <2>5
<1> HIDE DEF G
<1>5. 0 .. n \subseteq G
  BY <1>1, <1>3, <1>4, FromZero
<1>6. n \in G
  BY <1>1, <1>5
<1> QED
  BY <1>6 DEF G

(* A list of which every place passes is chosen whole.                     *)
LEMMA ChoiceOfAll ==
  ASSUME NEW S, NEW s \in Seq(S), NEW b, NEW g, Chooses(g, s, b, Len(s)),
         \A i \in 1 .. Len(s) : b[i]
  PROVE  g[Len(s)] = s
<1> DEFINE n == Len(s)
           Whole(i) == g[i] \in Seq(S) /\ Len(g[i]) = i /\ \A k \in 1 .. i : g[i][k] = s[k]
           G == {i \in 0 .. n : Whole(i)}
<1>1. n \in Nat /\ \A i \in 1 .. n : s[i] \in S
  OBVIOUS
<1>2. \A i \in 0 .. n : g[i] = IF i = 0 THEN << >>
                               ELSE IF b[i] THEN Append(g[i - 1], s[i]) ELSE g[i - 1]
  BY Zenon DEF Chooses
<1>3. 0 \in G
  <2>1. g[0] = << >> /\ 0 \in 0 .. n
    BY <1>1, <1>2
  <2>2. << >> \in Seq(S) /\ Len(<< >>) = 0
    OBVIOUS
  <2>3. Whole(0)
    BY <2>1, <2>2
  <2> QED
    BY <2>1, <2>3
<1>4. ASSUME NEW i \in 0 .. n, i \in G, i < n PROVE i + 1 \in G
  <2>1. /\ i + 1 \in 0 .. n /\ i + 1 # 0 /\ (i + 1) - 1 = i /\ i + 1 \in 1 .. n
        /\ s[i + 1] \in S
    BY <1>1, <1>4
  <2> DEFINE h == g[i]
  <2>2. g[i + 1] = Append(h, s[i + 1])
    BY <1>2, <2>1
  <2>3. h \in Seq(S) /\ Len(h) = i /\ \A k \in 1 .. i : h[k] = s[k]
    BY <1>4
  <2> HIDE DEF h
  <2>4. /\ Append(h, s[i + 1]) \in Seq(S) /\ Len(Append(h, s[i + 1])) = i + 1
        /\ \A k \in 1 .. i : Append(h, s[i + 1])[k] = h[k]
        /\ Append(h, s[i + 1])[i + 1] = s[i + 1]
    BY <2>1, <2>3
  <2>5. \A k \in 1 .. i + 1 : k \in 1 .. i \/ k = i + 1
    BY <1>4
  <2>6. Whole(i + 1)
    BY <2>2, <2>3, <2>4, <2>5
  <2> QED
    BY <2>1, <2>6
<1> HIDE DEF G
<1>5. 0 .. n \subseteq G
  BY <1>1, <1>3, <1>4, FromZero
<1>6. Whole(n)
  BY <1>1, <1>5 DEF G
<1> QED
  BY <1>1, <1>6

(* So a filtered list holds elements of the list, no more than it has, and *)
(* all of them when every place passes.                                    *)
LEMMA FilteredIs ==
  ASSUME NEW S, NEW s \in Seq(S), NEW b
  PROVE  /\ Filtered(s, b) \in Seq(S) /\ Len(Filtered(s, b)) <= Len(s)
         /\ \A k \in 1 .. Len(Filtered(s, b)) :
              \E i \in 1 .. Len(s) : b[i] /\ Filtered(s, b)[k] = s[i]
         /\ (\A i \in 1 .. Len(s) : b[i]) => Filtered(s, b) = s
<1> DEFINE g == CHOOSE h : Chooses(h, s, b, Len(s))
<1>1. Len(s) \in Nat
  OBVIOUS
<1>2. Chooses(g, s, b, Len(s))
  BY <1>1, ChoiceExists
<1>3. Filtered(s, b) = g[Len(s)]
  BY DEF Filtered, Chooses
<1> HIDE DEF g
<1>4. /\ g[Len(s)] \in Seq(S) /\ Len(g[Len(s)]) <= Len(s)
      /\ \A k \in 1 .. Len(g[Len(s)]) : \E i \in 1 .. Len(s) : b[i] /\ g[Len(s)][k] = s[i]
  BY <1>2, ChoiceKeeps
<1>5. ASSUME \A i \in 1 .. Len(s) : b[i] PROVE Filtered(s, b) = s
  BY <1>2, <1>3, <1>5, ChoiceOfAll
<1> QED
  BY <1>3, <1>4, <1>5

-----------------------------------------------------------------------------
(* The rows and the values of a file are cells of it, and a file with a    *)
(* value has a row.                                                        *)
LEMMA ValuesAre ==
  ASSUME NEW f, NEW S, f.cells \in Seq(S)
  PROVE  /\ Rows(f) \in Seq(S) /\ Values(f) \in Seq(S)
         /\ Len(Values(f)) <= Len(Rows(f))
         /\ \A i \in 1 .. Len(Values(f)) : Values(f)[i].kind # "blank"
<1>1. Rows(f) \in Seq(S)
  BY FilteredIs DEF Rows, Without
<1> DEFINE r == Rows(f)
           b == [i \in DOMAIN r |-> r[i].kind # "blank"]
<1>2. Values(f) = Filtered(r, b) /\ DOMAIN r = 1 .. Len(r)
  BY <1>1 DEF Values, Without
<1>3. \A i \in 1 .. Len(r) : b[i] => r[i].kind # "blank"
  BY <1>2
<1> HIDE DEF b, r
<1>4. r \in Seq(S)
  BY <1>1 DEF r
<1>5. /\ Filtered(r, b) \in Seq(S) /\ Len(Filtered(r, b)) <= Len(r)
      /\ \A k \in 1 .. Len(Filtered(r, b)) : \E i \in 1 .. Len(r) : b[i] /\ Filtered(r, b)[k] = r[i]
  BY <1>4, FilteredIs
<1> QED
  BY <1>2, <1>3, <1>4, <1>5 DEF r

-----------------------------------------------------------------------------
(* Reading dates: an export written in a format, in order and without long *)
(* gaps, supports that format, whatever else it supports.                  *)

(* The tokens are dates in the format, of these days.                      *)
ReadAs(tokens, format, days) ==
  /\ Len(tokens) \in Nat /\ DOMAIN tokens = 1 .. Len(tokens)
  /\ \A i \in 1 .. Len(tokens) : try_datetime(tokens[i], format) = << days[i] >>

LEMMA ParsedAll ==
  ASSUME NEW S, NEW tokens \in Seq(S), NEW format, NEW days, ReadAs(tokens, format, days)
  PROVE  /\ Len(parsed_values(tokens, format)) = Len(tokens)
         /\ DOMAIN parsed_values(tokens, format) = 1 .. Len(tokens)
         /\ \A i \in 1 .. Len(tokens) : parsed_values(tokens, format)[i] = days[i]
<1> DEFINE b == [i \in DOMAIN tokens |-> try_datetime(tokens[i], format) # << >>]
           v == [i \in 1 .. Len(tokens) |-> try_datetime(tokens[i], format)[1]]
<1>1. /\ Len(tokens) \in Nat /\ DOMAIN tokens = 1 .. Len(tokens)
      /\ \A i \in 1 .. Len(tokens) : try_datetime(tokens[i], format) = << days[i] >>
  BY DEF ReadAs
<1>2. \A i \in 1 .. Len(tokens) : b[i]
  <2>1. \A i \in 1 .. Len(tokens) : i \in DOMAIN tokens /\ try_datetime(tokens[i], format) # << >>
    BY <1>1
  <2> QED
    BY <2>1, Zenon
<1> HIDE DEF b
<1>3. Filtered(tokens, b) = tokens
  BY <1>2, FilteredIs
<1>4. parsed_values(tokens, format) = v
  BY <1>1, <1>3 DEF parsed_values, b
<1>5. \A i \in 1 .. Len(tokens) : v[i] = days[i]
  BY <1>1
<1>6. Len(v) = Len(tokens) /\ DOMAIN v = 1 .. Len(tokens)
  BY <1>1
<1> QED
  BY <1>4, <1>5, <1>6

(* A date is in a format when its month is one.                            *)
LEMMA MonthOf ==
  ASSUME NEW token, NEW d, NEW format \in DateFormats, try_datetime(token, format) = << d >>
  PROVE  IF format = "%d/%m/%Y" THEN token.second \in 1 .. 12 ELSE token.first \in 1 .. 12
<1>1. format = "%d/%m/%Y" \/ format = "%m/%d/%Y"
  BY DEF DateFormats
<1>2. << >> # << d >>
  OBVIOUS
<1>3. CASE format = "%d/%m/%Y"
  BY <1>2, <1>3 DEF try_datetime
<1>4. CASE format = "%m/%d/%Y"
  <2>1. format # "%d/%m/%Y"
    BY <1>4
  <2> QED
    BY <1>2, <2>1 DEF try_datetime
<1> QED
  BY <1>1, <1>3, <1>4

LEMMA BoundsAgree ==
  ASSUME NEW tokens, NEW days, NEW format \in DateFormats, ReadAs(tokens, format, days)
  PROVE  format_from_component_bounds(tokens) \in {format, NoFormat}
<1>1. \A i \in DOMAIN tokens : try_datetime(tokens[i], format) = << days[i] >>
  BY DEF ReadAs
<1>2. format = "%d/%m/%Y" \/ format = "%m/%d/%Y"
  BY DEF DateFormats
<1>3. CASE format = "%d/%m/%Y"
  <2>1. \A i \in DOMAIN tokens : tokens[i].second \in 1 .. 12
    BY <1>1, <1>3, MonthOf
  <2>2. ~ \E i \in DOMAIN tokens : tokens[i].first <= 12 /\ 12 < tokens[i].second
    BY <2>1
  <2> QED
    BY <1>3, <2>2 DEF format_from_component_bounds
<1>4. CASE format = "%m/%d/%Y"
  <2>1. \A i \in DOMAIN tokens : tokens[i].first \in 1 .. 12
    <3>1. format # "%d/%m/%Y"
      BY <1>4
    <3> QED
      BY <1>1, <3>1, MonthOf
  <2>2. ~ \E i \in DOMAIN tokens : tokens[i].second <= 12 /\ 12 < tokens[i].first
    BY <2>1
  <2> QED
    BY <1>4, <2>2 DEF format_from_component_bounds
<1> QED
  BY <1>2, <1>3, <1>4

(* The days of a regular export: in order, without a long gap, and its     *)
(* anchors are among them.                                                 *)
InOrder(tokens, days) ==
  \A i \in 1 .. Len(tokens) - 1 : days[i + 1] - days[i] \in 0 .. 45

LEMMA ChronologyAgrees ==
  ASSUME NEW S, NEW tokens \in Seq(S), NEW days, NEW format \in DateFormats,
         ReadAs(tokens, format, days), InOrder(tokens, days)
  PROVE  format_from_chronology(tokens) \in {format, NoFormat}
<1>1. /\ Len(parsed_values(tokens, format)) = Len(tokens)
      /\ \A i \in 1 .. Len(tokens) : parsed_values(tokens, format)[i] = days[i]
  BY ParsedAll
<1>2. Len(tokens) \in Nat
  OBVIOUS
<1>3. \A i \in Adjacent(parsed_values(tokens, format)) :
        Gap(parsed_values(tokens, format), i) \in 0 .. 45
  <2> SUFFICES ASSUME NEW i \in 1 .. Len(tokens) - 1
               PROVE  Gap(parsed_values(tokens, format), i) \in 0 .. 45
    BY <1>1 DEF Adjacent
  <2>1. i \in 1 .. Len(tokens) /\ i + 1 \in 1 .. Len(tokens)
    BY <1>2
  <2>2. Gap(parsed_values(tokens, format), i) = days[i + 1] - days[i]
    BY <1>1, <2>1 DEF Gap
  <2> QED
    BY <2>2 DEF InOrder
<1>4. ASSUME NEW other \in DateFormats,
             chronology_supports_inference(tokens, parsed_values(tokens, other))
      PROVE  chronology_supports_inference(tokens, parsed_values(tokens, format))
  <2>1. Len(tokens) >= 3 /\ components_vary(tokens)
    BY <1>4 DEF chronology_supports_inference
  <2> QED
    BY <1>1, <1>3, <2>1 DEF chronology_supports_inference
<1>5. format = "%d/%m/%Y" \/ format = "%m/%d/%Y"
  BY DEF DateFormats
<1>6. "%d/%m/%Y" \in DateFormats /\ "%m/%d/%Y" \in DateFormats
  BY DEF DateFormats
<1>7. CASE format = "%d/%m/%Y"
  <2>1. \/ chronology_supports_inference(tokens, parsed_values(tokens, "%d/%m/%Y"))
        \/ ~chronology_supports_inference(tokens, parsed_values(tokens, "%m/%d/%Y"))
    BY <1>4, <1>6, <1>7
  <2> QED
    BY <1>7, <2>1 DEF format_from_chronology
<1>8. CASE format = "%m/%d/%Y"
  <2>1. \/ chronology_supports_inference(tokens, parsed_values(tokens, "%m/%d/%Y"))
        \/ ~chronology_supports_inference(tokens, parsed_values(tokens, "%d/%m/%Y"))
    BY <1>4, <1>6, <1>8
  <2> QED
    BY <1>8, <2>1 DEF format_from_chronology
<1> QED
  BY <1>5, <1>7, <1>8

LEMMA AnchorAgrees ==
  ASSUME NEW S, NEW tokens \in Seq(S), NEW days, NEW format \in DateFormats, NEW anchors,
         ReadAs(tokens, format, days),
         \A a \in anchors : \E i \in 1 .. Len(tokens) : days[i] = a
  PROVE  format_from_filename_anchor(tokens, anchors) \in {format, NoFormat}
<1>1. /\ Len(parsed_values(tokens, format)) = Len(tokens)
      /\ DOMAIN parsed_values(tokens, format) = 1 .. Len(tokens)
      /\ \A i \in 1 .. Len(tokens) : parsed_values(tokens, format)[i] = days[i]
  BY ParsedAll
<1>2. ASSUME NEW other \in DateFormats, filename_matches_any_slash_date(tokens, other, anchors)
      PROVE  filename_matches_any_slash_date(tokens, format, anchors)
  <2>1. PICK a \in anchors : TRUE
    BY <1>2 DEF filename_matches_any_slash_date
  <2>2. PICK i \in 1 .. Len(tokens) : days[i] = a
    BY <2>1
  <2>3. i \in DOMAIN parsed_values(tokens, format) /\ parsed_values(tokens, format)[i] \in anchors
    BY <1>1, <2>1, <2>2
  <2> QED
    BY <1>1, <2>3 DEF filename_matches_any_slash_date
<1>3. format = "%d/%m/%Y" \/ format = "%m/%d/%Y"
  BY DEF DateFormats
<1>4. "%d/%m/%Y" \in DateFormats /\ "%m/%d/%Y" \in DateFormats
  BY DEF DateFormats
<1>5. CASE format = "%d/%m/%Y"
  <2>1. \/ filename_matches_any_slash_date(tokens, "%d/%m/%Y", anchors)
        \/ ~filename_matches_any_slash_date(tokens, "%m/%d/%Y", anchors)
    BY <1>2, <1>4, <1>5
  <2> QED
    BY <1>5, <2>1 DEF format_from_filename_anchor, filename_matches_any_slash_date
<1>6. CASE format = "%m/%d/%Y"
  <2>1. \/ filename_matches_any_slash_date(tokens, "%m/%d/%Y", anchors)
        \/ ~filename_matches_any_slash_date(tokens, "%d/%m/%Y", anchors)
    BY <1>2, <1>4, <1>6
  <2> QED
    BY <1>6, <2>1 DEF format_from_filename_anchor, filename_matches_any_slash_date
<1> QED
  BY <1>3, <1>5, <1>6

-----------------------------------------------------------------------------
(* The values of an export written in a format.                            *)

LEMMA DayIsInteger ==
  ASSUME NEW token \in [first : Nat, second : Nat, year : Nat], NEW format, NEW w,
         Midnight(try_datetime(token, format)) = << w >>
  PROVE  /\ try_datetime(token, format) = << try_datetime(token, format)[1] >>
         /\ try_datetime(token, format)[1] \in Int
         /\ w = 24 * try_datetime(token, format)[1]
<1> DEFINE day == IF format = "%d/%m/%Y" THEN token.first ELSE token.second
           month == IF format = "%d/%m/%Y" THEN token.second ELSE token.first
           d == DayNumber(token.year, month, day)
<1>1. token.first \in Nat /\ token.second \in Nat /\ token.year \in Nat
  OBVIOUS
<1>2. day \in Nat /\ month \in Nat
  BY <1>1
<1>3. try_datetime(token, format) =
        IF month \in 1 .. 12 /\ day \in 1 .. MonthLength(token.year, month) THEN << d >> ELSE << >>
  BY DEF try_datetime
<1>4. month \in 1 .. 12 => d \in Int
  <2> SUFFICES ASSUME month \in 1 .. 12 PROVE d \in Int
    OBVIOUS
  <2> HIDE DEF day, month
  <2>1. DaysBefore[month] \in Int
    BY DEF DaysBefore
  <2>2. (token.year - 1997) \div 4 \in Int
    BY <1>1
  <2> DEFINE q == (token.year - 1997) \div 4
             leap == IF month > 2 /\ IsLeap(token.year) THEN 1 ELSE 0
  <2>3. leap \in Int
    OBVIOUS
  <2>4. d = (token.year - 2000) * 365 + q + DaysBefore[month] + day + leap
    BY DEF DayNumber
  <2> HIDE DEF q, leap
  <2> QED
    BY <1>1, <1>2, <2>1, <2>2, <2>3, <2>4 DEF q
<1> HIDE DEF day, month, d
<1>5. CASE try_datetime(token, format) = << >>
  BY <1>5 DEF Midnight
<1>6. CASE try_datetime(token, format) # << >>
  <2>1. try_datetime(token, format) = << d >> /\ d \in Int
    BY <1>3, <1>4, <1>6
  <2>2. Midnight(try_datetime(token, format)) = << 24 * d >>
    BY <2>1 DEF Midnight
  <2> QED
    BY <2>1, <2>2
<1> QED
  BY <1>5, <1>6

LEMMA ExportRead ==
  ASSUME NEW f, ExportIs(f)
  PROVE  /\ Values(f) \in Seq(Range(f.cells)) /\ DOMAIN Values(f) = 1 .. Len(Values(f))
         /\ Len(Values(f)) \in Nat /\ Len(Values(f)) <= Len(Rows(f)) /\ Len(Rows(f)) \in Nat
         /\ DOMAIN f.written = 1 .. Len(Values(f))
         /\ \A i \in DOMAIN Values(f) : f.written[i] \in Int /\ Values(f)[i] \in Range(f.cells)
<1>1. f.cells \in Seq(Range(f.cells)) /\ f.written \in Seq(Int) /\ Len(f.written) = Len(Values(f))
  BY DEF ExportIs
<1>2. Rows(f) \in Seq(Range(f.cells)) /\ Values(f) \in Seq(Range(f.cells))
      /\ Len(Values(f)) <= Len(Rows(f))
  BY <1>1, ValuesAre
<1> QED
  BY <1>1, <1>2

LEMMA FormatAgrees ==
  ASSUME NEW f, ExportIs(f), f.format # NoFormat, Regular(f)
  PROVE  InferredFormat(f) \in {f.format, NoFormat}
<1> DEFINE v == Values(f)
           n == Len(v)
           S == Range(f.cells)
           b == [i \in DOMAIN v |-> v[i].kind = "slash"]
           tokens == [i \in 1 .. n |-> v[i].slash]
           days == [i \in 1 .. n |-> try_datetime(tokens[i], f.format)[1]]
           T == [first : Nat, second : Nat, year : Nat]
<1>1. f.format \in DateFormats
  BY DEF ExportIs
<1>2. /\ v \in Seq(S) /\ DOMAIN v = 1 .. n /\ n \in Nat
      /\ \A i \in 1 .. n : f.written[i] \in Int /\ v[i] \in S
      /\ Len(f.written) = n /\ DOMAIN f.written = 1 .. n
  BY ExportRead DEF ExportIs
<1>3. \A i \in 1 .. n :
        /\ v[i].kind = "slash" /\ v[i].slash \in T
        /\ Midnight(try_datetime(v[i].slash, f.format)) = << f.written[i] >>
  BY <1>1, <1>2 DEF ExportIs, Means
<1>4. Filtered(v, b) = v
  <2>1. \A i \in 1 .. n : b[i]
    BY <1>2, <1>3
  <2> HIDE DEF b, v
  <2> QED
    BY <1>2, <2>1, FilteredIs
<1>5. InferredFormat(f) = infer_date_only_format(FALSE, tokens, f.anchors)
  <2>1. (\E i \in DOMAIN v : v[i].kind = "iso") = FALSE
    BY <1>2, <1>3
  <2>2. [i \in DOMAIN v |-> v[i].slash] = tokens
    BY <1>2
  <2> QED
    BY <1>4, <2>1, <2>2, Zenon DEF InferredFormat
<1>6. tokens \in Seq(T) /\ Len(tokens) = n /\ DOMAIN tokens = 1 .. n
  BY <1>2, <1>3
<1>7. \A i \in 1 .. n : /\ try_datetime(tokens[i], f.format) = << days[i] >>
                        /\ days[i] \in Int /\ f.written[i] = 24 * days[i]
  <2> SUFFICES ASSUME NEW i \in 1 .. n
               PROVE  /\ try_datetime(tokens[i], f.format) = << days[i] >>
                      /\ days[i] \in Int /\ f.written[i] = 24 * days[i]
    OBVIOUS
  <2>1. tokens[i] \in T /\ Midnight(try_datetime(tokens[i], f.format)) = << f.written[i] >>
    BY <1>3
  <2>2. days[i] = try_datetime(tokens[i], f.format)[1]
    OBVIOUS
  <2> HIDE DEF tokens, days
  <2> QED
    BY <2>1, <2>2, DayIsInteger
<1> HIDE DEF tokens, days, T, v, b
<1>8. ReadAs(tokens, f.format, days)
  BY <1>2, <1>6, <1>7 DEF ReadAs
<1>9. InOrder(tokens, days)
  <2> SUFFICES ASSUME NEW i \in 1 .. n - 1 PROVE days[i + 1] - days[i] \in 0 .. 45
    BY <1>6 DEF InOrder
  <2>1. i \in 1 .. n /\ i + 1 \in 1 .. n
    BY <1>2
  <2>2. f.written[i + 1] - f.written[i] \in 0 .. 45 * 24
    BY <1>2 DEF Regular, Adjacent, Gap
  <2>3. /\ days[i] \in Int /\ f.written[i] = 24 * days[i]
        /\ days[i + 1] \in Int /\ f.written[i + 1] = 24 * days[i + 1]
    BY <1>7, <2>1
  <2>4. \A x, y \in Int : 24 * y - 24 * x \in 0 .. 45 * 24 => y - x \in 0 .. 45
    OBVIOUS
  <2> QED
    BY <2>2, <2>3, <2>4
<1>10. \A a \in f.anchors : \E i \in 1 .. Len(tokens) : days[i] = a
  <2> SUFFICES ASSUME NEW a \in f.anchors PROVE \E i \in 1 .. n : days[i] = a
    BY <1>6
  <2>1. a \in Int
    BY DEF ExportIs
  <2>2. PICK i \in 1 .. n : f.written[i] = 24 * a
    BY <1>2 DEF Regular, Range
  <2> QED
    BY <1>7, <2>1, <2>2
<1>11. SlashFormat(tokens, f.anchors) \in {f.format, NoFormat}
  <2>1. format_from_component_bounds(tokens) \in {f.format, NoFormat}
    BY <1>1, <1>8, BoundsAgree
  <2>2. format_from_chronology(tokens) \in {f.format, NoFormat}
    BY <1>1, <1>6, <1>8, <1>9, ChronologyAgrees
  <2>3. format_from_filename_anchor(tokens, f.anchors) \in {f.format, NoFormat}
    BY <1>1, <1>6, <1>8, <1>10, AnchorAgrees
  <2> QED
    BY <2>1, <2>2, <2>3, Zenon DEF SlashFormat
<1> QED
  BY <1>5, <1>11 DEF infer_date_only_format

-----------------------------------------------------------------------------
(* The adapter of a capture that is translated.                            *)

LEMMA ClaimIs ==
  ASSUME NEW f, NEW a \in Adapters, classify_profile_families(a, f) # {}
  PROVE  /\ classify_profile_families(a, f) = {<< a, f.layout >>} /\ HeaderFound(f)
         /\ f.layout \in {"spot_trade_history", "deposit_history", "pro_statement",
                          "transaction_export", "realized_pnl_report"}
BY DEF classify_profile_families, Spoken, Adapters

(* A capture with files of one adapter only is given to it.                *)
LEMMA SelectedIs ==
  ASSUME IsFiniteSet(files), families_supported(files), NEW p \in files, NEW a \in Adapters,
         classify_profile_families(a, Exports[p]) # {}
  PROVE  Selected(label, files) = {a}
<1> DEFINE R == recognized_adapter_ids(files)
           Leads(x) == x \in R /\ \A y \in R : ClaimCount(files, y) <= ClaimCount(files, x)
<1>1. R = {a}
  <2>1. << a, Exports[p].layout >> \in FamiliesOf(Exports[p])
    BY ClaimIs DEF FamiliesOf
  <2>2. a \in R
    <3>1. << a, Exports[p].layout >> \in UNION {FamiliesOf(Exports[q]) : q \in files}
      BY <2>1
    <3>2. << a, Exports[p].layout >>[1] = a
      OBVIOUS
    <3> QED
      BY <3>1, <3>2, Zenon DEF recognized_adapter_ids
  <2>3. R \subseteq Adapters
    <3> SUFFICES ASSUME NEW x \in R PROVE x \in Adapters
      OBVIOUS
    <3>1. PICK c \in UNION {FamiliesOf(Exports[q]) : q \in files} : x = c[1]
      BY DEF recognized_adapter_ids
    <3>2. PICK q \in files : c \in FamiliesOf(Exports[q])
      BY <3>1
    <3>3. PICK y \in Adapters : c \in classify_profile_families(y, Exports[q])
      BY <3>2 DEF FamiliesOf
    <3>4. c = << y, Exports[q].layout >>
      BY <3>3, ClaimIs
    <3> QED
      BY <3>1, <3>4
  <2>4. IsFiniteSet(Adapters)
    <3>1. Adapters = {"binance"} \cup {"coinbase"} \cup {"crypto_com"} \cup {"gtrade"}
      BY DEF Adapters
    <3> QED
      BY <3>1, FS_Singleton, FS_Union
  <2> HIDE DEF R
  <2>5. IsFiniteSet(R)
    BY <2>3, <2>4, FS_Subset
  <2>6. Cardinality(R) \in Nat /\ Cardinality(R) <= 1 /\ (Cardinality(R) = 0 => R = {})
    BY <2>5, FS_CardinalityType, FS_EmptySet DEF families_supported, R
  <2>7. Cardinality(R) = 1
    BY <2>2, <2>6
  <2> QED
    BY <2>2, <2>5, <2>7, FS_Singleton
<1>2. ClaimCount(files, a) \in Nat
  <2>1. IsFiniteSet({q \in files : classify_profile_families(a, Exports[q]) # {}})
    BY FS_Subset
  <2> QED
    BY <2>1, FS_CardinalityType DEF ClaimCount
<1>3. \A x : Leads(x) <=> x = a
  <2>1. ClaimCount(files, a) <= ClaimCount(files, a)
    BY <1>2
  <2> HIDE DEF R
  <2> QED
    BY <1>1, <2>1
<1>4. PICK k \in DOMAIN AdapterOrder : AdapterOrder[k] = a /\ \A j \in DOMAIN AdapterOrder :
        AdapterOrder[j] = a => j = k
  BY DEF AdapterOrder, Adapters
<1>5. {j \in DOMAIN AdapterOrder : Leads(AdapterOrder[j])} = {k}
  BY <1>3, <1>4, Zenon
<1>6. Smallest({k}) = k
  <2>1. k \in Nat
    BY DEF AdapterOrder
  <2>2. \A m \in {k} : k <= m
    BY <2>1
  <2> QED
    BY <2>2 DEF Smallest
<1>7. selected_adapter_id(files) = a
  BY <1>4, <1>5, <1>6, Zenon DEF selected_adapter_id
<1> QED
  BY <1>1, <1>7, Zenon DEF Selected

(* A file of a capture that is translated tells its clock in a way its     *)
(* adapter accepts.                                                        *)
LEMMA ClockAccepted ==
  ASSUME NEW a, create_profile(label, files).timezone_issues = {},
         create_profile(label, files).adapter = a, NEW p \in files,
         Dated(Exports[p]), Len(Rows(Exports[p])) # 0
  PROVE  timezone_mode(Exports[p]) \in accepted_modes(a)
<1> DEFINE E == {Entry(q) : q \in files}
           f == Exports[p]
<1>1. validate_profile_timezones(a, E) = {}
  <2> DEFINE x == CHOOSE x \in Selected(label, files) : TRUE
  <2>1. /\ create_profile(label, files).adapter = x
        /\ create_profile(label, files).timezone_issues = validate_profile_timezones(x, E)
    BY DEF create_profile, profile_of
  <2> HIDE DEF x, E
  <2> QED
    BY <2>1
<1>2. {{e.path} : e \in {e \in E : inventory_timezone_issue(a, e)}} = {}
  BY <1>1 DEF validate_profile_timezones
<1>3. Entry(p) \in E
  OBVIOUS
<1> HIDE DEF E
<1>4. ~inventory_timezone_issue(a, Entry(p))
  BY <1>2, <1>3
<1>5. /\ Entry(p).date_field = Dated(f) /\ Entry(p).rows = Len(Rows(f))
      /\ Entry(p).timezone_mode = IF Dated(f) THEN timezone_mode(f) ELSE ""
  BY DEF Entry
<1> QED
  BY <1>4, <1>5, Zenon DEF inventory_timezone_issue

-----------------------------------------------------------------------------
(* What the adapters book.                                                 *)

(* The spellings of a name that profile and adapter both know.             *)
KnownSpelling(f) == f.sign \in {<< >>, << "-", "-" >>} /\ f.format # "%m/%d/%Y"

LEMMA ModeIs ==
  ASSUME NEW f, ExportIs(f), NEW i \in DOMAIN Values(f)
  PROVE  timezone_mode(f) =
           LET first == Values(f)[i].kind
           IN  IF f.header_utc THEN (IF first = "offset" THEN "conflict" ELSE "header_utc")
               ELSE IF first \in {"utc", "offset"} THEN "value_utc"
               ELSE IF filename_timezone(f) # << >> /\ first # "none" THEN "filename_offset"
               ELSE IF InferredFormat(f) # NoFormat THEN "date_only"
               ELSE IF first # "none" THEN "naive" ELSE ""
<1>1. 1 \in DOMAIN Values(f) /\ Values(f) # << >>
  BY ExportRead
<1>2. Values(f)[1].kind = Values(f)[i].kind
  BY <1>1 DEF ExportIs
<1> QED
  BY <1>1, <1>2, Zenon DEF timezone_mode

LEMMA BookedAgrees ==
  ASSUME NEW f, ExportIs(f), KnownSpelling(f), NEW a \in Adapters,
         timezone_mode(f) \in accepted_modes(a), NEW i \in DOMAIN Values(f)
  PROVE  Booked(a, f, Values(f)[i]) \in {<< >>, << f.written[i] >>}
<1> DEFINE c == Values(f)[i]
           w == f.written[i]
<1>1. Means(f, c, w)
  BY DEF ExportIs
<1>2. timezone_mode(f) =
        IF f.header_utc THEN (IF c.kind = "offset" THEN "conflict" ELSE "header_utc")
        ELSE IF c.kind \in {"utc", "offset"} THEN "value_utc"
        ELSE IF filename_timezone(f) # << >> /\ c.kind # "none" THEN "filename_offset"
        ELSE IF InferredFormat(f) # NoFormat THEN "date_only"
        ELSE IF c.kind # "none" THEN "naive" ELSE ""
  BY ModeIs, Zenon
<1> HIDE DEF c, w
<1>3. CASE a = "binance"
  <2>1. timezone_mode(f) = "filename_offset"
    BY <1>3 DEF accepted_modes
  <2>2. ~f.header_utc /\ filename_timezone(f) # << >>
    BY <1>2, <2>1
  <2>3. f.sign = << "-", "-" >>
    BY <2>2 DEF filename_timezone, KnownSpelling
  <2>4. CASE c.kind = "plain"
    <3>1. w = c.clock + f.hours
      BY <1>1, <2>2, <2>3, <2>4 DEF Means
    <3>2. apply_filename_offset(c.clock, f) = c.clock + f.hours
      BY <2>3 DEF apply_filename_offset
    <3>3. Booked(a, f, c) = << apply_filename_offset(c.clock, f) >>
      BY <1>3, <2>4 DEF Booked
    <3> QED
      BY <3>1, <3>2, <3>3 DEF c, w
  <2>5. CASE c.kind # "plain"
    <3>1. Booked(a, f, c) = << >>
      BY <1>3, <2>5 DEF Booked
    <3> QED
      BY <3>1 DEF c
  <2> QED
    BY <2>4, <2>5
<1>4. CASE a = "coinbase"
  <2>1. Booked(a, f, c) = IF c.kind = "utc" THEN << c.clock >> ELSE << >>
    BY <1>4 DEF Booked
  <2>2. c.kind = "utc" => w = c.clock
    BY <1>1 DEF Means
  <2> QED
    BY <2>1, <2>2 DEF c, w
<1>5. CASE a = "crypto_com"
  <2>1. Booked(a, f, c) = IF c.kind = "plain" THEN << c.clock >> ELSE << >>
    BY <1>5 DEF Booked
  <2>2. timezone_mode(f) \in {"header_utc", "value_utc"}
    BY <1>5 DEF accepted_modes
  <2>3. c.kind = "plain" => f.header_utc
    <3> SUFFICES ASSUME c.kind = "plain", ~f.header_utc PROVE FALSE
      OBVIOUS
    <3>1. c.kind \notin {"utc", "offset"}
      OBVIOUS
    <3>2. timezone_mode(f) \in {"filename_offset", "date_only", "naive", ""}
      BY <1>2, <3>1
    <3> QED
      BY <2>2, <3>2
  <2>4. c.kind = "plain" => w = c.clock
    BY <1>1, <2>3 DEF Means
  <2> QED
    BY <2>1, <2>4 DEF c, w
<1>6. CASE a = "gtrade"
  <2>1. Booked(a, f, c) = parse_report_date(c)
    BY <1>6 DEF Booked
  <2>2. CASE c.kind = "iso"
    <3>1. parse_report_date(c) = << c.clock >> /\ w = c.clock
      BY <1>1, <2>2 DEF parse_report_date, Means
    <3> QED
      BY <2>1, <3>1 DEF c, w
  <2>3. CASE c.kind = "slash"
    <3>1. f.format \in DateFormats
      BY <1>1, <2>3 DEF Means
    <3>2. f.format = "%d/%m/%Y"
      BY <3>1 DEF DateFormats, KnownSpelling
    <3>3. Midnight(try_datetime(c.slash, "%d/%m/%Y")) = << w >>
      BY <1>1, <3>1, <3>2 DEF Means
    <3>4. parse_report_date(c) = << w >>
      BY <2>3, <3>3 DEF parse_report_date
    <3> QED
      BY <2>1, <3>4 DEF c, w
  <2>4. CASE c.kind \notin {"iso", "slash"}
    <3>1. parse_report_date(c) = << >>
      BY <2>4 DEF parse_report_date
    <3> QED
      BY <2>1, <3>1 DEF c
  <2> QED
    BY <2>2, <2>3, <2>4
<1> QED
  BY <1>3, <1>4, <1>5, <1>6 DEF Adapters

-----------------------------------------------------------------------------
(* The state: a translated capture is one whose profile, made of the files *)
(* that are there, was not refused.                                        *)
ProfileInv ==
  /\ files \subseteq DOMAIN Exports /\ IsFiniteSet(files)
  /\ outcome = "translated" => /\ profile = << create_profile(label, files) >>
                               /\ ~Refused(create_profile(label, files))

(* The profile last made, and the verdict on it, stay those of the files:  *)
(* an export that is added takes them away.                                *)
THEOREM ProfilesInductive == Spec => []ProfileInv
<1>1. Init => ProfileInv
  BY FS_EmptySet DEF Init, ProfileInv
<1>2. ProfileInv /\ [Next]_vars => ProfileInv'
  <2> SUFFICES ASSUME ProfileInv, [Next]_vars PROVE ProfileInv'
    OBVIOUS
  <2>1. CASE UNCHANGED vars
    <3>1. UNCHANGED << label, files, profile, outcome >>
      BY <2>1 DEF vars
    <3> QED
      BY <3>1 DEF ProfileInv
  <2>2. ASSUME NEW p \in DOMAIN Exports, AddExport(p) PROVE ProfileInv'
    <3>1. files' = files \cup {p} /\ outcome' # "translated"
      BY <2>2 DEF AddExport
    <3>2. IsFiniteSet(files')
      BY <3>1, FS_AddElement DEF ProfileInv
    <3> QED
      BY <3>1, <3>2 DEF ProfileInv
  <2>3. CASE ProfileRaises \/ BuildProfile
    <3>1. UNCHANGED << label, files >> /\ outcome' # "translated"
      BY <2>3 DEF ProfileRaises, BuildProfile
    <3> QED
      BY <3>1 DEF ProfileInv
  <2>4. CASE Normalize
    <3> DEFINE fresh == create_profile(label, files)
    <3>1. /\ profile' = << fresh >> /\ UNCHANGED << label, files >>
          /\ outcome' = IF Refused(fresh) THEN "refused" ELSE "translated"
      BY <2>4 DEF Normalize
    <3>2. create_profile(label, files)' = fresh
      BY <3>1
    <3>3. outcome' = "translated" => ~Refused(fresh)
      <4> HIDE DEF fresh
      <4> QED
        BY <3>1
    <3> QED
      BY <3>1, <3>2, <3>3, Zenon DEF ProfileInv
  <2> QED
    BY <2>1, <2>2, <2>3, <2>4 DEF Next
<1> QED
  BY <1>1, <1>2, PTL DEF Spec

LEMMA TranslatedIsBooked ==
  ASSUME ProfileInv
  PROVE  BookedWhenWritten
<1> SUFFICES ASSUME outcome = "translated", NEW p \in files,
                    NEW i \in DOMAIN Values(Exports[p]), FamiliesOf(Exports[p]) # {},
                    KnownSpelling(Exports[p])
             PROVE  Booked(profile[1].adapter, Exports[p], Values(Exports[p])[i])
                      \in {<< >>, << Exports[p].written[i] >>}
  BY DEF BookedWhenWritten, KnownSpelling
<1> DEFINE f == Exports[p]
           made == create_profile(label, files)
<1>1. /\ profile = << made >> /\ made.timezone_issues = {} /\ families_supported(files)
      /\ files \subseteq DOMAIN Exports /\ IsFiniteSet(files)
  <2>1. profile = << made >> /\ ~Refused(made)
    BY DEF ProfileInv
  <2>2. made.supported = families_supported(files)
    BY DEF create_profile, profile_of
  <2> HIDE DEF made
  <2> QED
    BY <2>1, <2>2 DEF Refused, ProfileInv
<1>2. ExportIs(f)
  BY <1>1, ExportsAssumption
<1>3. PICK a \in Adapters : classify_profile_families(a, f) # {}
  BY DEF FamiliesOf
<1>4. made.adapter = a
  <2>1. Selected(label, files) = {a}
    BY <1>1, <1>3, SelectedIs
  <2>2. made.adapter = CHOOSE x \in Selected(label, files) : TRUE
    BY DEF create_profile, profile_of
  <2> QED
    BY <2>1, <2>2
<1>5. Dated(f)
  <2>1. HeaderFound(f) /\ f.layout # "undated"
    BY <1>3, ClaimIs
  <2> QED
    BY <2>1 DEF Dated
<1>6. Len(Rows(f)) # 0
  BY <1>2, ExportRead
<1>7. timezone_mode(f) \in accepted_modes(a)
  BY <1>1, <1>4, <1>5, <1>6, ClockAccepted
<1>8. Booked(a, f, Values(f)[i]) \in {<< >>, << f.written[i] >>}
  BY <1>2, <1>3, <1>7, BookedAgrees
<1>9. profile[1].adapter = a
  BY <1>1, <1>4
<1> QED
  BY <1>8, <1>9

(* Each row of a capture that source normalize translates is booked at the *)
(* instant its provider meant or reported, whatever files the capture has: *)
(* the timezone verdict of the profile refuses the clocks the adapter      *)
(* would read wrongly.                                                     *)
THEOREM RowsBookedWhenWritten == Spec => []BookedWhenWritten
BY ProfilesInductive, TranslatedIsBooked, PTL

(* The slashed dates of an export that lists its rows in order and without *)
(* a long gap are never read in the other format: each of the three tests  *)
(* of infer_date_only_format leaves it undecided rather than decide it     *)
(* wrongly.                                                                *)
THEOREM DatesReadAsWritten == Spec => []DatesNotMistaken
<1>1. ProfileInv => DatesNotMistaken
  <2> SUFFICES ASSUME ProfileInv, NEW p \in Profiled,
                      Exports[p].format # NoFormat, Regular(Exports[p])
               PROVE  InferredFormat(Exports[p]) \in {Exports[p].format, NoFormat}
    BY DEF DatesNotMistaken
  <2>1. p \in DOMAIN Exports
    BY DEF Profiled, ProfileInv
  <2> QED
    BY <2>1, ExportsAssumption, FormatAgrees
<1> QED
  BY <1>1, ProfilesInductive, PTL
=============================================================================
