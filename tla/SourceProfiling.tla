-------------------------- MODULE SourceProfiling --------------------------
(* `source profile` and the gate of `source normalize`: which adapter a raw  *)
(* capture belongs to, when its rows happened, whether the clocks of its     *)
(* files may be trusted, and the instants the adapter then books.            *)
(*                                                                           *)
(* A CSV file is what the profile reads of it: the classes of the cells of   *)
(* its first rows, the timestamp cell of each row below the header, and the  *)
(* offset and dates in its name.  Clocks are counted in hours since the      *)
(* start of 2000.                                                            *)
(* An export also carries the instants its provider meant (written), which   *)
(* no code reads: the properties compare with them.                          *)
EXTENDS DateInference, SequencesExt

CONSTANTS
  Exports,        \* [path -> file], what may be put into the capture
  Labels,         \* the source labels
  LabelNames,     \* [label -> the adapters whose name is in the label]
  MaxFiles,       \* bound: files in the capture
  MaxCommands     \* bound: commands run

Adapters == {"binance", "coinbase", "crypto_com", "gtrade"}

-----------------------------------------------------------------------------
(* Finding the header row.  A cell is blank, a header word (keyword), a      *)
(* header word in capitals, which also looks like an asset code (CAPITALS),  *)
(* other text, a value (a number, an asset code, a time), or a mark that is  *)
(* none of these (a slashed date, a dash).                                   *)

NonBlank(row) == SelectSeq(row, LAMBDA cell : cell # "blank")
Hits(row, classes) == Len(SelectSeq(row, LAMBDA cell : cell \in classes))

(* Mutant: a title of two words may be a header.                             *)
is_plausible_header_row_of_two(row) ==
    LET width == Len(NonBlank(row))
    IN  /\ width >= 2
        /\ 2 * Hits(row, {"value", "CAPITALS"}) <= width
        /\ \/ 2 * Hits(row, {"keyword", "text"}) >= width
           \/ Hits(row, {"keyword", "CAPITALS"}) >= 2

is_plausible_header_row(row) ==
    LET width == Len(NonBlank(row))
        keywords == Hits(row, {"keyword", "CAPITALS"})
    IN  /\ width >= 2
        /\ width > 3 \/ keywords >= 2
        /\ 2 * Hits(row, {"value", "CAPITALS"}) <= width
        /\ 2 * Hits(row, {"keyword", "text"}) >= width \/ keywords >= 2

(* The first plausible row, else the first of the widest rows; 0 for none.   *)
header_row_index(rows) ==
    LET plausible == {i \in DOMAIN rows : is_plausible_header_row(rows[i])}
        wide == {i \in DOMAIN rows : Len(NonBlank(rows[i])) >= 2}
        widest == {i \in wide : \A j \in wide : Len(NonBlank(rows[j])) <= Len(NonBlank(rows[i]))}
        First(indexes) == CHOOSE i \in indexes : \A j \in indexes : i <= j
    IN  IF plausible # {} THEN First(plausible) ELSE IF widest # {} THEN First(widest) ELSE 0

HeaderFound(f) == header_row_index(f.top) = f.header_at

-----------------------------------------------------------------------------
(* Cells of the timestamp column: "2026-03-23 15:47:00" (plain), the same    *)
(* with " UTC" or "Z" (utc) or "-06:00" (offset), "2026-03-23" (iso),        *)
(* "23/03/2026" (slash), anything else (other), nothing (blank), or the      *)
(* whole row is "No data matches the criteria." (no_data).                   *)

Cell(kind, clock, offset, slash) ==
    [kind |-> kind, clock |-> clock, offset |-> offset, slash |-> slash]
NoSlash == SlashDate(0, 0, 0)

Without(kind, cells) == Filtered(cells, [i \in DOMAIN cells |-> cells[i].kind # kind])
Rows(f) == Without("no_data", f.cells)
Values(f) == Without("blank", Rows(f))

(* The file's clock, from "(UTC--6)" and the like in its name: the offset in *)
(* hours in brackets, or << >>.  Anything that starts with a minus is west.  *)
filename_timezone(f) ==
    IF f.sign = <<>> THEN <<>>
    ELSE IF f.sign[1] = "-" THEN <<-f.hours>> ELSE <<f.hours>>

InferredFormat(f) ==
    LET slashes == Filtered(Values(f), [i \in DOMAIN Values(f) |-> Values(f)[i].kind = "slash"])
    IN  infer_date_only_format(\E i \in DOMAIN Values(f) : Values(f)[i].kind = "iso",
                               [i \in DOMAIN slashes |-> slashes[i].slash], f.anchors)

(* An instant in brackets, or << >> when the cell cannot be read.            *)
Midnight(days) == IF days = <<>> THEN <<>> ELSE <<24 * days[1]>>
slash_instant(slash, format, anchored) ==
    IF format \in DateFormats THEN Midnight(try_datetime(slash, format))
    ELSE IF format = NoFormat /\ anchored # NoFormat THEN Midnight(try_datetime(slash, anchored))
    ELSE <<>>
parse_inventory_timestamp(cell, f) ==
    LET zone == filename_timezone(f)
    IN  CASE cell.kind = "utc" -> <<cell.clock>>
          [] cell.kind = "offset" -> <<cell.clock - cell.offset>>
          [] cell.kind = "iso" -> <<cell.clock>>
          [] cell.kind = "plain" -> <<IF zone = <<>> THEN cell.clock ELSE cell.clock - zone[1]>>
          [] cell.kind = "slash" ->
               slash_instant(cell.slash, InferredFormat(f),
                             format_from_filename_anchor(<<cell.slash>>, f.anchors))
          [] cell.kind = "other" -> <<>>

(* What a provider writes: one clock in all rows of a file, that of the      *)
(* header or of the file's name where the cells say none, and slashed dates  *)
(* in one format.                                                            *)
Means(f, cell, instant) ==
    /\ cell.kind \in {"utc", "iso"} => instant = cell.clock
    /\ cell.kind = "offset" => instant = cell.clock - cell.offset
    /\ cell.kind = "plain" /\ f.header_utc => instant = cell.clock
    /\ cell.kind = "plain" /\ ~f.header_utc /\ f.sign = <<"-", "-">> =>
         instant = cell.clock + f.hours
    /\ cell.kind = "slash" => f.format \in DateFormats
    /\ f.format \in DateFormats =>
         cell.kind = "slash" /\ Midnight(try_datetime(cell.slash, f.format)) = <<instant>>

(* Of one export: its types, and that its rows have one clock.               *)
ExportIs(f) ==
    /\ f.cells \in Seq(Range(f.cells)) /\ f.written \in Seq(Int)
    /\ \A cell \in Range(f.cells) :
         /\ cell.clock \in Int /\ cell.offset \in Int
         /\ cell.slash \in [first : Nat, second : Nat, year : Nat]
    /\ f.sign \in Seq({"-", "+"}) /\ f.hours \in Int
    /\ f.format \in DateFormats \cup {NoFormat} /\ f.anchors \subseteq Int
    /\ Len(f.written) = Len(Values(f))
    /\ \A i \in DOMAIN Values(f) : Means(f, Values(f)[i], f.written[i])
    /\ \A i, j \in DOMAIN Values(f) : Values(f)[i].kind = Values(f)[j].kind

ASSUME ExportsAssumption == \A p \in DOMAIN Exports : ExportIs(Exports[p])

(* The clock evidence of a file: that of its header and of its first value.  *)
NoZone == <<>>
Utc == <<"UTC", 0>>
timezone_mode(f) ==
    LET first == IF Values(f) = <<>> THEN "none" ELSE Values(f)[1].kind
    IN  IF f.header_utc THEN (IF first = "offset" THEN "conflict" ELSE "header_utc")
        ELSE IF first \in {"utc", "offset"} THEN "value_utc"
        ELSE IF filename_timezone(f) # <<>> /\ first # "none" THEN "filename_offset"
        ELSE IF InferredFormat(f) # NoFormat THEN "date_only"
        ELSE IF first # "none" THEN "naive" ELSE ""

(* What timezone_value says: "UTC", "UTC-06:00" of the name or "-06:00" of   *)
(* the value.                                                                *)
timezone_value(f, mode) ==
    CASE mode = "header_utc" -> Utc
      [] mode = "value_utc" ->
           IF Values(f)[1].kind = "utc" THEN Utc ELSE <<"inline", Values(f)[1].offset>>
      [] mode = "filename_offset" -> <<"offset", filename_timezone(f)[1]>>
      [] OTHER -> NoZone

Smallest(numbers) == CHOOSE n \in numbers : \A m \in numbers : n <= m
Largest(numbers) == CHOOSE n \in numbers : \A m \in numbers : n >= m

-----------------------------------------------------------------------------
(* Which adapter the files belong to.                                        *)

Spoken(f, layouts) == HeaderFound(f) /\ f.layout \in layouts

(* The families each adapter claims for a file.  Coinbase scores a capture   *)
(* by its retail export and claims only the Pro statement.                   *)
classify_profile_families(adapter, f) ==
    LET Claimed == CASE adapter = "binance" -> {"spot_trade_history", "deposit_history"}
                     [] adapter = "coinbase" -> {"pro_statement"}
                     [] adapter = "crypto_com" -> {"transaction_export"}
                     [] adapter = "gtrade" -> {"realized_pnl_report"}
    IN  IF Spoken(f, Claimed) THEN {<<adapter, f.layout>>} ELSE {}

match(adapter, label, files) ==
    LET Known == CASE adapter = "binance" -> {"spot_trade_history", "deposit_history"}
                   [] adapter = "coinbase" -> {"retail_export"}
                   [] adapter = "crypto_com" -> {"transaction_export"}
                   [] adapter = "gtrade" -> {"realized_pnl_report"}
    IN  IF adapter \in LabelNames[label] \/ \E p \in files : Spoken(Exports[p], Known) THEN 100 ELSE 0

FamiliesOf(f) == UNION {classify_profile_families(adapter, f) : adapter \in Adapters}
recognized_adapter_ids(files) == {claim[1] : claim \in UNION {FamiliesOf(Exports[p]) : p \in files}}

ClaimCount(files, adapter) ==
    Cardinality({p \in files : classify_profile_families(adapter, Exports[p]) # {}})

(* Adapter ids in alphabetical order, for ties.                              *)
AdapterOrder == <<"binance", "coinbase", "crypto_com", "gtrade">>
selected_adapter_id(files) ==
    LET Leads(adapter) ==
          /\ adapter \in recognized_adapter_ids(files)
          /\ \A other \in recognized_adapter_ids(files) :
               ClaimCount(files, other) <= ClaimCount(files, adapter)
    IN  AdapterOrder[Smallest({i \in DOMAIN AdapterOrder : Leads(AdapterOrder[i])})]

(* The adapters that may be selected: none when nothing matches or when two  *)
(* match as well, and the command raises.                                    *)
Selected(label, files) ==
    IF recognized_adapter_ids(files) # {} THEN {selected_adapter_id(files)}
    ELSE LET matched == {adapter \in Adapters : match(adapter, label, files) > 0}
         IN  IF Cardinality(matched) = 1 THEN matched ELSE {}

families_supported(files) == Cardinality(recognized_adapter_ids(files)) <= 1

-----------------------------------------------------------------------------
(* The profile.                                                              *)

Dated(f) == f.layout # "undated" /\ HeaderFound(f)
Instants(f) ==
    LET readings == [i \in DOMAIN Values(f) |-> parse_inventory_timestamp(Values(f)[i], f)]
    IN  IF Dated(f) THEN FlattenSeq(readings) ELSE <<>>

(* The earliest and the latest instant of the rows.                          *)
Bounds(instants) ==
    IF instants = {} THEN <<>> ELSE <<Smallest(instants), Largest(instants)>>
Period(f) == Bounds(Range(Instants(f)))

Entry(p) ==
    LET f == Exports[p]
    IN  [path |-> p, families |-> FamiliesOf(f), rows |-> Len(Rows(f)),
         date_field |-> Dated(f), period |-> Period(f),
         timezone_mode |-> IF Dated(f) THEN timezone_mode(f) ELSE "",
         timezone_value |-> IF Dated(f) THEN timezone_value(f, timezone_mode(f)) ELSE NoZone]

(* The clocks an adapter accepts, and the one that Binance wants reviewed.   *)
accepted_modes(adapter) ==
    CASE adapter = "binance" -> {"filename_offset"}
      [] adapter \in {"coinbase", "crypto_com"} -> {"header_utc", "value_utc"}
      [] adapter = "gtrade" -> {"date_only"}

inventory_timezone_issue(adapter, entry) ==
    /\ entry.date_field /\ entry.rows # 0
    /\ entry.timezone_mode \notin accepted_modes(adapter)

(* A profiled time is read again in the zone of its file.  Only "UTC" and    *)
(* "UTC-06:00" are zones; "-06:00" is none.                                  *)
parse_timezone_value(value) == IF value = NoZone \/ value[1] = "inline" THEN <<>> ELSE <<value[2]>>
parse_profile_timestamp(clock, value) == clock - parse_timezone_value(value)[1]

timezone_shift_overlap(left, right) ==
    /\ left.families = right.families /\ left.timezone_value # right.timezone_value
    /\ parse_timezone_value(left.timezone_value) # <<>>
    /\ parse_timezone_value(right.timezone_value) # <<>>
    /\ parse_profile_timestamp(left.period[1], left.timezone_value)
         <= parse_profile_timestamp(right.period[2], right.timezone_value)
    /\ parse_profile_timestamp(right.period[1], right.timezone_value)
         <= parse_profile_timestamp(left.period[2], left.timezone_value)

ShiftCandidate(entry) ==
    entry.date_field /\ entry.families # {} /\ entry.timezone_value # NoZone /\ entry.period # <<>>

timezone_shift_overlap_issues(entries) ==
    {{pair[1].path, pair[2].path} : pair \in
       {pair \in entries \X entries :
          /\ pair[1] # pair[2] /\ ShiftCandidate(pair[1]) /\ ShiftCandidate(pair[2])
          /\ timezone_shift_overlap(pair[1], pair[2])}}

validate_profile_timezones(adapter, entries) ==
    {{entry.path} : entry \in {e \in entries : inventory_timezone_issue(adapter, e)}}
      \cup timezone_shift_overlap_issues(entries)

profile_of(adapter, files, entries) ==
    [adapter |-> adapter, entries |-> entries,
     supported |-> families_supported(files),
     scan_issues |-> {p \in files : Exports[p].unreadable},
     timezone_issues |-> validate_profile_timezones(adapter, entries)]
create_profile(label, files) ==
    profile_of(CHOOSE a \in Selected(label, files) : TRUE, files, {Entry(p) : p \in files})

-----------------------------------------------------------------------------
(* The instants an adapter books: each cell in brackets, << >> for a row it  *)
(* reports instead.                                                          *)

(* "UTC-", a sign and the hours in the name; no match leaves the clock.      *)
(* Mutant: the offset is taken the other way round.                          *)
apply_filename_offset_reversed(clock, f) ==
    IF Len(f.sign) = 2 /\ f.sign[1] = "-"
    THEN IF f.sign[2] = "-" THEN clock - f.hours ELSE clock + f.hours
    ELSE clock

apply_filename_offset(clock, f) ==
    IF Len(f.sign) = 2 /\ f.sign[1] = "-"
    THEN IF f.sign[2] = "-" THEN clock + f.hours ELSE clock - f.hours
    ELSE clock

(* gTrade reads every slashed date day first, whatever the profile inferred. *)
parse_report_date(cell) ==
    CASE cell.kind = "iso" -> <<cell.clock>>
      [] cell.kind = "slash" -> Midnight(try_datetime(cell.slash, "%d/%m/%Y"))
      [] OTHER -> <<>>

Booked(adapter, f, cell) ==
    CASE adapter = "binance" ->
           IF cell.kind = "plain" THEN <<apply_filename_offset(cell.clock, f)>> ELSE <<>>
      [] adapter = "coinbase" -> IF cell.kind = "utc" THEN <<cell.clock>> ELSE <<>>
      [] adapter = "crypto_com" -> IF cell.kind = "plain" THEN <<cell.clock>> ELSE <<>>
      [] adapter = "gtrade" -> parse_report_date(cell)

-----------------------------------------------------------------------------

VARIABLES
  label,      \* the capture's source label
  files,      \* the files in the raw capture
  profile,    \* the profile a command made last, or << >>
  outcome,    \* what that command came to
  commands
vars == <<label, files, profile, outcome, commands>>

Init ==
    /\ label \in Labels
    /\ files = {} /\ profile = <<>> /\ outcome = "none" /\ commands = 0

AddExport(p) ==
    /\ Cardinality(files) < MaxFiles /\ p \notin files
    /\ files' = files \cup {p}
    /\ profile' = <<>> /\ outcome' = "none"
    /\ UNCHANGED <<label, commands>>

(* No adapter matches, or several do.                                        *)
ProfileRaises ==
    /\ commands < MaxCommands /\ Selected(label, files) = {}
    /\ profile' = <<>> /\ outcome' = "raised" /\ commands' = commands + 1
    /\ UNCHANGED <<label, files>>

BuildProfile ==
    /\ commands < MaxCommands /\ Selected(label, files) # {}
    /\ profile' = <<create_profile(label, files)>>
    /\ outcome' = "profiled" /\ commands' = commands + 1
    /\ UNCHANGED <<label, files>>

(* Normalize profiles the capture again and refuses it before it translates. *)
Refused(p) == p.timezone_issues # {} \/ ~p.supported \/ p.scan_issues # {}

Normalize ==
    /\ commands < MaxCommands /\ Selected(label, files) # {}
    /\ LET fresh == create_profile(label, files)
       IN  /\ profile' = <<fresh>>
           /\ outcome' = IF Refused(fresh) THEN "refused" ELSE "translated"
    /\ commands' = commands + 1
    /\ UNCHANGED <<label, files>>

Next == (\E p \in DOMAIN Exports : AddExport(p)) \/ ProfileRaises \/ BuildProfile \/ Normalize

Spec == Init /\ [][Next]_vars

-----------------------------------------------------------------------------
(* Properties.                                                               *)

(* A profile has one entry per file it could open; outcomes are those of the *)
(* two commands.                                                             *)
TypeOK ==
    /\ label \in Labels /\ files \subseteq DOMAIN Exports
    /\ outcome \in {"none", "raised", "profiled", "refused", "translated"}
    /\ commands \in 0 .. MaxCommands
    /\ outcome \in {"profiled", "refused", "translated"} <=> profile # <<>>
    /\ profile # <<>> =>
         /\ profile[1].adapter \in Adapters /\ profile[1].supported \in BOOLEAN
         /\ \A entry \in profile[1].entries :
              entry.period = <<>> \/ entry.period[1] <= entry.period[2]

EntryOf(p) == CHOOSE entry \in profile[1].entries : entry.path = p
Profiled == IF profile = <<>> THEN {} ELSE files

(* The file tells its clock in a way that has one reading.                   *)
Kinds(f) == {Values(f)[i].kind : i \in DOMAIN Values(f)}
Declared(f) ==
    \/ Kinds(f) \subseteq {"utc", "offset", "iso"}
    \/ Kinds(f) = {"plain"} /\ (f.header_utc <=> f.sign = <<>>) /\ f.sign # <<"-", "+">>

(* Whatever rows precede the header, however the provider spells its clock   *)
(* and however the rows are ordered, the period in the profile is that of    *)
(* the instants the provider meant, when the file says its clock.            *)
PeriodIsTrue ==
    \A p \in Profiled :
      Declared(Exports[p]) /\ Exports[p].written # <<>> =>
        EntryOf(p).period =
          <<Smallest(Range(Exports[p].written)), Largest(Range(Exports[p].written))>>

(* The dates of an export that lists its rows in time order, without a gap   *)
(* of more than 45 days, and whose name holds no date its rows do not have,  *)
(* are never read in the other format: an ambiguous export is left undecided. *)
Regular(f) ==
    /\ \A i \in Adjacent(f.written) : Gap(f.written, i) \in 0 .. 45 * 24
    /\ \A day \in f.anchors : 24 * day \in Range(f.written)
DatesNotMistaken ==
    \A p \in Profiled :
      LET f == Exports[p]
      IN  f.format # NoFormat /\ Regular(f) => InferredFormat(f) \in {f.format, NoFormat}

(* The profile reads the clocks of an export as its provider meant them.     *)
ClocksAreRead == PeriodIsTrue /\ DatesNotMistaken

(* Each row of a translated capture is booked at the instant the provider    *)
(* meant or is reported, for the spellings of a file name that the adapter   *)
(* and the profile both know and for day-first reports.                      *)
BookedWhenWritten ==
    outcome = "translated" =>
      \A p \in files :
        LET f == Exports[p]
        IN  \A i \in DOMAIN Values(f) :
              FamiliesOf(f) # {} /\ f.sign \in {<<>>, <<"-", "-">>} /\ f.format # "%m/%d/%Y" =>
                Booked(profile[1].adapter, f, Values(f)[i]) \in {<<>>, <<f.written[i]>>}

(* As the review message and the artifact reference say: two exports of one  *)
(* family with different clocks whose rows overlap in UTC are reviewed       *)
(* before they are translated.                                               *)
Overlap(f, g) ==
    /\ f.written # <<>> /\ g.written # <<>>
    /\ Smallest(Range(f.written)) <= Largest(Range(g.written))
    /\ Smallest(Range(g.written)) <= Largest(Range(f.written))
ShiftedOverlapsReviewed ==
    outcome = "translated" =>
      ~ \E p, q \in Profiled :
          /\ p # q /\ Overlap(Exports[p], Exports[q])
          /\ EntryOf(p).families = EntryOf(q).families /\ EntryOf(p).families # {}
          /\ EntryOf(p).timezone_value # EntryOf(q).timezone_value

(* As the adapter guide says: a capture that holds the exports of two        *)
(* providers fails explicitly.                                               *)
MixedCapturesFail ==
    outcome = "translated" => \A p, q \in files : Exports[p].provider = Exports[q].provider
=============================================================================
