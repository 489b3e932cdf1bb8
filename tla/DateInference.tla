--------------------------- MODULE DateInference ---------------------------
(* How profiling decides whether the slashed dates of an export are written  *)
(* day first or month first.  A slashed date is its three numbers; a parsed  *)
(* date is a day number; a date that does not exist in a format is dropped.  *)
EXTENDS Integers, Sequences, FiniteSets

DateFormats == {"%d/%m/%Y", "%m/%d/%Y"}
NoFormat == "none"
IsoFormat == "%Y-%m-%d"

(* The elements of s at the places that pass, in their order.                *)
Filtered(s, passes) ==
    LET kept[i \in 0 .. Len(s)] ==
          IF i = 0 THEN <<>>
          ELSE IF passes[i] THEN Append(kept[i - 1], s[i]) ELSE kept[i - 1]
    IN  kept[Len(s)]

SlashDate(first, second, year) == [first |-> first, second |-> second, year |-> year]

-----------------------------------------------------------------------------
(* The calendar of datetime.strptime.                                        *)

IsLeap(year) == year % 4 = 0 /\ (year % 100 # 0 \/ year % 400 = 0)
MonthLength(year, month) ==
    IF month = 2 THEN (IF IsLeap(year) THEN 29 ELSE 28)
    ELSE IF month \in {4, 6, 9, 11} THEN 30 ELSE 31
DaysBefore == <<0, 31, 59, 90, 120, 151, 181, 212, 243, 273, 304, 334>>
DayNumber(year, month, day) ==
    (year - 2000) * 365 + (year - 1997) \div 4 + DaysBefore[month] + day
      + (IF month > 2 /\ IsLeap(year) THEN 1 ELSE 0)

(* A date in a format, as <<day number>>, or << >> when there is none.       *)
try_datetime(token, format) ==
    LET day == IF format = "%d/%m/%Y" THEN token.first ELSE token.second
        month == IF format = "%d/%m/%Y" THEN token.second ELSE token.first
    IN  IF month \in 1 .. 12 /\ day \in 1 .. MonthLength(token.year, month)
        THEN <<DayNumber(token.year, month, day)>> ELSE <<>>

parsed_values(tokens, format) ==
    LET existing == Filtered(tokens, [i \in DOMAIN tokens |-> try_datetime(tokens[i], format) # <<>>])
    IN  [i \in DOMAIN existing |-> try_datetime(existing[i], format)[1]]

(* zip(values, values[1:]): the positions of a value that has a next one.    *)
Adjacent(values) == 1 .. Len(values) - 1
Gap(values, i) == values[i + 1] - values[i]

(* A number above 12 is a day.                                               *)
format_from_component_bounds(tokens) ==
    LET day_first == \E i \in DOMAIN tokens : tokens[i].second <= 12 /\ 12 < tokens[i].first
        month_first == \E i \in DOMAIN tokens : tokens[i].first <= 12 /\ 12 < tokens[i].second
    IN  IF day_first = month_first THEN NoFormat
        ELSE IF day_first THEN "%d/%m/%Y" ELSE "%m/%d/%Y"

(* The order of the rows: a format that reads them in order, without a long  *)
(* gap, where the other one does not.                                        *)
components_vary(tokens) ==
    /\ Cardinality({tokens[i].first : i \in DOMAIN tokens}) > 1
    /\ Cardinality({tokens[i].second : i \in DOMAIN tokens}) > 1

chronology_supports_inference(tokens, values) ==
    /\ Len(values) = Len(tokens) /\ Len(values) >= 3
    /\ components_vary(tokens)
    /\ \A i \in Adjacent(values) : Gap(values, i) \in 0 .. 45

has_decisive_chronology_witness(winner, loser) ==
    \E i \in Adjacent(winner) \cap Adjacent(loser) :
      /\ Gap(winner, i) \in 0 .. 7
      /\ Gap(loser, i) < 0 \/ Gap(loser, i) > 21

format_from_chronology(tokens) ==
    LET Supported(format) == chronology_supports_inference(tokens, parsed_values(tokens, format))
        Decisive(winner, loser) ==
          /\ Supported(winner) /\ ~Supported(loser)
          /\ has_decisive_chronology_witness(parsed_values(tokens, winner),
                                             parsed_values(tokens, loser))
    IN  IF Decisive("%d/%m/%Y", "%m/%d/%Y") THEN "%d/%m/%Y"
        ELSE IF Decisive("%m/%d/%Y", "%d/%m/%Y") THEN "%m/%d/%Y" ELSE NoFormat

(* A date in the file's name that one of the rows has in one format only.    *)
filename_matches_any_slash_date(tokens, format, anchors) ==
    LET values == parsed_values(tokens, format)
    IN  /\ Len(values) = Len(tokens)
        /\ \E i \in DOMAIN values : values[i] \in anchors

format_from_filename_anchor(tokens, anchors) ==
    LET Matching(format) == filename_matches_any_slash_date(tokens, format, anchors)
    IN  IF Matching("%d/%m/%Y") = Matching("%m/%d/%Y") THEN NoFormat
        ELSE IF Matching("%d/%m/%Y") THEN "%d/%m/%Y" ELSE "%m/%d/%Y"

(* infer_date_only_format: the first of the three that decides.              *)
SlashFormat(tokens, anchors) ==
    LET bounds == format_from_component_bounds(tokens)
        chronology == format_from_chronology(tokens)
    IN  IF bounds # NoFormat THEN bounds
        ELSE IF chronology # NoFormat THEN chronology
        ELSE format_from_filename_anchor(tokens, anchors)

(* isos says that there are ISO dates beside the slashed ones.               *)
infer_date_only_format(isos, tokens, anchors) ==
    IF isos /\ tokens = <<>> THEN IsoFormat
    ELSE IF tokens = <<>> \/ isos THEN NoFormat
    ELSE SlashFormat(tokens, anchors)
=============================================================================
