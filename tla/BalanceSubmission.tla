------------------------- MODULE BalanceSubmission -------------------------
(* Manual balance packages, the balances and locations they and an assembly  *)
(* put into a source's folder, and the two commands that compare folders of  *)
(* several sources: the cross-source corroboration of `balances check` and   *)
(* the rebuilt location inventory.                                           *)
(*                                                                           *)
(* A package holds text.  What the parsers make of a text is given by the    *)
(* constants: Decimals and Times map a text to <<value>> or, when it cannot  *)
(* be read, to <<>>; several texts may have one value ("2026-03-03" and      *)
(* "2026-03-3", "Main" and "main").  "" is a blank cell.                     *)
EXTENDS Naturals, FiniteSets, Sequences, SequencesExt

CONSTANTS Sources,         \* the source names
          Rank,            \* [Sources -> Nat], their alphabetical order
          Submissions,     \* the <<source, package>> pairs an operator may submit
          Assemblies,      \* the <<source, captures>> pairs an assembly may find
          MaxCommands,     \* bound: commands run
          Decimals, Times, \* [text -> <<>> or <<number>>]
          Part,            \* [text -> text], what of a name is kept in a location id
          Symbol,          \* [text -> [base, venue]], an instrument id; venue 0: none
          Lower            \* [text -> text], an identifier in lower case

VARIABLES folder,     \* folder[s]: the assembled dataset of source s
          package,    \* package[s]: the package submitted last
          sidecars,   \* the cross-source files of the last check
          aggregate,  \* the location inventory rebuilt last
          last,       \* the last command
          commands    \* how many have run
vars == <<folder, package, sidecars, aggregate, last, commands>>

When(condition, kind) == IF condition THEN {kind} ELSE {}
Range_(s) == { s[i] : i \in DOMAIN s }

ASSUME SourcesAssumption ==
    /\ IsFiniteSet(Sources)
    /\ Rank \in [Sources -> Nat] /\ \A s, t \in Sources : Rank[s] = Rank[t] => s = t
    /\ \A d \in Submissions \cup Assemblies : d[1] \in Sources
    /\ MaxCommands \in Nat

(* A decimal that can be read is a number; so is the place of a venue.       *)
ASSUME ValuesAssumption ==
    /\ \A t \in DOMAIN Decimals : Decimals[t] \in Seq(Int)
    /\ \A t \in DOMAIN Symbol : Symbol[t].venue \in Nat

(* A file that can be read is a list of rows, of texts the parsers know.     *)
ASSUME PackagesAssumption ==
    \A d \in Submissions : d[2].root /= "missing" =>
        /\ \A file \in {d[2].snapshots, d[2].references, d[2].inventory} :
            /\ file.state \in {"ok", "missing", "bad_header"}
            /\ file.state = "ok" => file.rows \in Seq(Range_(file.rows))
        /\ d[2].snapshots.state = "ok" => \A r \in Range_(d[2].snapshots.rows) :
            r.instrument \in {""} \cup DOMAIN Symbol /\ r.quantity \in {""} \cup DOMAIN Decimals

(* What the captures of a source hold: balances and references of it.        *)
ASSUME CapturesAssumption ==
    \A d \in Assemblies :
        /\ d[2] \in Seq(Range_(d[2]))
        /\ \A c \in Range_(d[2]) :
            /\ \A x \in c.snapshots :
                /\ x = [target |-> x.target, quantity |-> x.quantity]
                /\ x.target.source = d[1] /\ x.quantity \in Int
                /\ x.target.instrument.venue \in Nat
            /\ \A r \in c.references :
                r = [target |-> r.target, quantity |-> r.quantity, kind |-> r.kind,
                     observed |-> r.observed, reviewed |-> r.reviewed]
            /\ IsFiniteSet(c.snapshots) /\ IsFiniteSet(c.inventory)
            /\ \A r \in c.inventory : "capture" \in DOMAIN r

(* The elements of a finite set in the order of their keys.                  *)
Sorted(S, key) ==
    CHOOSE q \in [1 .. Cardinality(S) -> S] :
        /\ S \subseteq Range_(q)
        /\ \A i, j \in DOMAIN q : key[q[i]] < key[q[j]] => i < j

----------------------------------------------------------------------------
(* Parsing: the value of a cell, if any, and the issues the attempt leaves.  *)
Cell(text, values, kind) ==
    [value |-> IF text = "" THEN <<>> ELSE values[text],
     issues |-> When(text /= "" /\ values[text] = <<>>, kind)]

parse_submission_quantity(text) == Cell(text, Decimals, "invalid_decimal")

parse_submission_precision(text) ==
    LET known == text \in {"date", "timestamp"}
    IN  [value |-> IF known THEN <<text>> ELSE <<>>,
         issues |-> When(text /= "" /\ ~known, "invalid_precision")]

(* A time is read only once its precision is known.                          *)
parse_submission_temporal_value(text, precision) ==
    IF precision = <<>> THEN [value |-> <<>>, issues |-> {}]
    ELSE Cell(text, Times[precision[1]], "invalid_timestamp")

parse_submission_reviewed_at(text) == Cell(text, Times["timestamp"], "invalid_timestamp")

----------------------------------------------------------------------------
(* Rows.  Each validation gives the parsed row, if the row is valid, and the *)
(* kinds of its issues.                                                      *)
Names == {"source", "account", "wallet"}
BalanceFields == Names \cup {"instrument", "quantity", "at", "precision", "kind"}
ReferenceFields == {"reference_kind", "observed_at", "observed_precision", "reviewed_by", "reviewed_at"}
LocationFields == Names \cup {"identifier_kind", "identifier_value", "confidence"}

Unfilled(row, fields) == \E f \in fields : row[f] = ""
RowIssues(row, fields, source) ==
    When(Unfilled(row, fields), "missing_required_value")
        \cup When(row.source \notin {"", source}, "source_mismatch")

validate_balance_like_row(row, source) ==
    LET quantity == parse_submission_quantity(row.quantity)
        precision == parse_submission_precision(row.precision)
        at == parse_submission_temporal_value(row.at, precision.value)
        faults == RowIssues(row, BalanceFields, source)
    IN  [issues |-> faults \cup quantity.issues \cup precision.issues \cup at.issues,
         parsed |-> IF faults /= {} \/ <<>> \in {quantity.value, precision.value, at.value}
                    THEN <<>>
                    ELSE << [source |-> row.source, account |-> row.account, wallet |-> row.wallet,
                             instrument |-> row.instrument, quantity |-> quantity.value[1],
                             at |-> at.value[1], precision |-> precision.value[1],
                             kind |-> row.kind] >>]

BalanceReferenceKinds == {"source_document", "network_api", "operator_assertion"}

validate_balance_reference_row(row, source) ==
    LET base == validate_balance_like_row(row, source)
        precision == parse_submission_precision(row.observed_precision)
        observed == parse_submission_temporal_value(row.observed_at, precision.value)
        reviewed == parse_submission_reviewed_at(row.reviewed_at)
        faults == When(Unfilled(row, ReferenceFields), "missing_required_value")
            \cup When(row.reference_kind \notin BalanceReferenceKinds \cup {""}, "invalid_reference_kind")
            \cup When(row.reference_kind \in BalanceReferenceKinds \ {"operator_assertion"},
                      "unsupported_reference_kind")
    IN  [issues |-> base.issues \cup faults \cup precision.issues \cup observed.issues
                        \cup reviewed.issues,
         parsed |-> IF \/ faults /= {}
                       \/ <<>> \in {base.parsed, precision.value, observed.value, reviewed.value}
                    THEN <<>>
                    ELSE << [row |-> base.parsed[1], reference_kind |-> row.reference_kind,
                             observed |-> <<observed.value[1], precision.value[1]>>,
                             reviewed |-> <<row.reviewed_by, reviewed.value[1]>>] >>]

(* location_id_from_parts raises when nothing is left of one of the names.   *)
LocationParts(row) == << row.source, Part[row.account], Part[row.wallet] >>
Nameless(row) == "" \in {Part[row.account], Part[row.wallet]}

validate_location_inventory_row(row, source) ==
    LET faults == RowIssues(row, LocationFields, source)
        nameless == faults = {} /\ Nameless(row)
    IN  [issues |-> faults \cup When(nameless, "invalid_location_parts"),
         parsed |-> IF faults /= {} \/ nameless THEN <<>> ELSE <<row>>]

----------------------------------------------------------------------------
(* A package: its three files, each missing, with a wrong header, or with    *)
(* rows.  row.extra says that the line has more values than the header.      *)
Issue(file, row, kind) == [file |-> file, row |-> row, kind |-> kind]

read_rows(file) == IF file.state = "ok" THEN file.rows ELSE <<>>

read_issues(name, file, required) ==
    IF file.state = "missing" THEN
        IF required THEN {Issue(name, 0, "missing_required_file")} ELSE {}
    ELSE IF file.state = "bad_header" THEN {Issue(name, 1, "invalid_header")}
    ELSE { Issue(name, i + 1, "unexpected_extra_value") : i \in { j \in DOMAIN file.rows : file.rows[j].extra } }

ValidatedIssues(name, results) ==
    UNION { { Issue(name, i + 1, k) : k \in results[i].issues } : i \in DOMAIN results }
ParsedRows(results) == FlattenSeq([i \in DOMAIN results |-> results[i].parsed])

BalanceKey(row) ==
    << row.source, row.account, row.wallet, row.instrument, row.at, row.precision, row.kind >>
LocationKey(row) ==
    << row.source, row.account, row.wallet, row.identifier_kind, row.identifier_value, row.scope >>

(* The keys are compared as they are written; a blank one is not compared.   *)
collect_duplicate_rows(name, keys) ==
    { Issue(name, i + 1, "duplicate_row") :
        i \in { j \in DOMAIN keys : /\ \E n \in DOMAIN keys[j] : keys[j][n] /= ""
                                    /\ \E h \in 1 .. (j - 1) : keys[h] = keys[j] } }

(* The counts are of parsed rows, and a count above one is left to the       *)
(* duplicate check.                                                          *)
collect_balance_reference_mismatches_one_way(balances, references) ==
    { Issue("balance_snapshots.csv", 0, "missing_matching_reference") :
        row \in { r \in Range_(balances) : ~\E x \in Range_(references) : x.row = r } }

collect_balance_reference_mismatches(balances, references) ==
    LET of(row) == Cardinality({ i \in DOMAIN balances : balances[i] = row })
        for(row) == Cardinality({ i \in DOMAIN references : references[i].row = row })
    IN  { Issue("balance_snapshots.csv", 0, "missing_matching_reference") :
            row \in { r \in Range_(balances) : of(r) = 1 /\ for(r) = 0 } }
        \cup { Issue("balance_references.csv", 0, "orphan_reference") :
            row \in { r.row : r \in { x \in Range_(references) : for(x.row) = 1 /\ of(x.row) = 0 } } }

HighConfidence(row) == Lower[row.confidence] = "high"
Identifier(row) == << row.identifier_kind, row.identifier_value, row.scope >>

collect_location_inventory_conflicts(rows) ==
    LET high == { r \in Range_(rows) : HighConfidence(r) }
    IN  { Issue("location_inventory.csv", 0, "conflicting_high_confidence_identity") :
            r \in { x \in high : \E y \in high :
                        /\ <<x.source, x.account, x.wallet>> = <<y.source, y.account, y.wallet>>
                        /\ Identifier(x) /= Identifier(y) } }

validate_balance_submission(p, source) ==
    LET rows == read_rows(p.snapshots)
        refs == read_rows(p.references)
        locs == read_rows(p.inventory)
        balances == [i \in DOMAIN rows |-> validate_balance_like_row(rows[i], source)]
        references == [i \in DOMAIN refs |-> validate_balance_reference_row(refs[i], source)]
        inventory == [i \in DOMAIN locs |-> validate_location_inventory_row(locs[i], source)]
        parsed == [balances |-> ParsedRows(balances), references |-> ParsedRows(references),
                   inventory |-> ParsedRows(inventory)]
        readable == p.snapshots.state = "ok" /\ p.references.state = "ok"
    IN  [rows |-> parsed,
         issues |->
            read_issues("balance_snapshots.csv", p.snapshots, TRUE)
            \cup read_issues("balance_references.csv", p.references, TRUE)
            \cup read_issues("location_inventory.csv", p.inventory, FALSE)
            \cup ValidatedIssues("balance_snapshots.csv", balances)
            \cup ValidatedIssues("balance_references.csv", references)
            \cup ValidatedIssues("location_inventory.csv", inventory)
            \cup collect_duplicate_rows("balance_snapshots.csv", [i \in DOMAIN rows |-> BalanceKey(rows[i])])
            \cup collect_duplicate_rows("balance_references.csv", [i \in DOMAIN refs |-> BalanceKey(refs[i])])
            \cup collect_duplicate_rows("location_inventory.csv", [i \in DOMAIN locs |-> LocationKey(locs[i])])
            \cup collect_location_inventory_conflicts(parsed.inventory)
            \cup (IF readable
                  THEN collect_balance_reference_mismatches(parsed.balances, parsed.references)
                  ELSE {})]

----------------------------------------------------------------------------
(* Materialization.  A location whose account and wallet have one name is an *)
(* account; any other is a wallet of the account.                            *)
location_id_for_submission_row(row) ==
    IF row.account = row.wallet THEN << row.source, Part[row.account] >> ELSE LocationParts(row)

BalanceTarget(row) ==
    [source |-> row.source, location |-> location_id_for_submission_row(row),
     instrument |-> Symbol[row.instrument], kind |-> row.kind, at |-> row.at,
     precision |-> row.precision]

balance_snapshot_from_row(row) == [target |-> BalanceTarget(row), quantity |-> row.quantity]

balance_reference_from_row(r) ==
    [target |-> BalanceTarget(r.row), quantity |-> r.row.quantity, kind |-> r.reference_kind,
     observed |-> r.observed, reviewed |-> r.reviewed]

normalized_identifier(kind, value) ==
    IF kind \in {"evm_address", "address_alias"} THEN Lower[value] ELSE value

location_inventory_record_from_row(row) ==
    [source |-> row.source, capture |-> 0, location |-> location_id_for_submission_row(row),
     kind |-> row.identifier_kind,
     id |-> normalized_identifier(row.identifier_kind, row.identifier_value),
     scope |-> row.scope, confidence |-> row.confidence]

balance_snapshot_semantic_key(item) == item.target
balance_reference_semantic_key(item) == << item.target, item.kind, item.observed, item.reviewed >>
balance_conflict_key_of_target(item) == item.target
balance_conflict_key(item) == item.quantity

(* Of several rows with one key the last is kept.                            *)
LastOfKeys(items, keys) ==
    { items[i] : i \in { j \in DOMAIN items : \A k \in (j + 1) .. Len(items) : keys[k] /= keys[j] } }

merge_balance_snapshots(items) ==
    LastOfKeys(items, [i \in DOMAIN items |-> balance_snapshot_semantic_key(items[i])])
merge_balance_references(items) ==
    LastOfKeys(items, [i \in DOMAIN items |-> balance_reference_semantic_key(items[i])])

----------------------------------------------------------------------------
(* The folder of a source.  <<>> stands for a file that is not there.        *)
EmptyFolder ==
    [snapshots |-> <<>>, references |-> <<>>, inventory |-> <<>>, summary |-> <<>>,
     issues |-> <<>>, conflicts |-> <<>>, by |-> "nobody"]

clear_generated_balance_outputs(f) ==
    [f EXCEPT !.snapshots = <<>>, !.references = <<>>, !.inventory = <<>>, !.summary = <<>>,
              !.issues = <<>>]

write_status_artifacts(f, issues) ==
    [f EXCEPT !.issues = IF issues = {} THEN <<>> ELSE <<issues>>,
              !.summary = << [blocked |-> issues /= {}, ready |-> issues = {}] >>]

MaterializedInto(f, rows) ==
    [f EXCEPT !.snapshots =
                << merge_balance_snapshots([i \in DOMAIN rows.balances |->
                        balance_snapshot_from_row(rows.balances[i])]) >>,
              !.references =
                << merge_balance_references([i \in DOMAIN rows.references |->
                        balance_reference_from_row(rows.references[i])]) >>,
              !.inventory =
                IF rows.inventory = <<>> THEN <<>>
                ELSE << [i \in DOMAIN rows.inventory |->
                            location_inventory_record_from_row(rows.inventory[i])] >>]

(* A name of which nothing is left raises out of the materialization, after  *)
(* the folder has been cleared and before anything is written.               *)
MaterializationRaises(rows) ==
    \E r \in Range_(rows.balances) \cup { x.row : x \in Range_(rows.references) } : Nameless(r)

Submitted(f, p, source) ==
    LET cleared == [clear_generated_balance_outputs(f) EXCEPT !.by = "submit"]
        validation == validate_balance_submission(p, source)
    IN  IF p.root = "missing"
        THEN write_status_artifacts(cleared, {Issue("", 0, "missing_submission_root")})
        ELSE IF validation.issues /= {} THEN write_status_artifacts(cleared, validation.issues)
        ELSE IF MaterializationRaises(validation.rows) THEN cleared
        ELSE write_status_artifacts(MaterializedInto(cleared, validation.rows), {})

----------------------------------------------------------------------------
(* Assembly: the rows of the included captures, in capture order, without    *)
(* exact repetitions.  Two quantities for one key are reported and both      *)
(* rows stay.                                                                *)
conflict_issues(items, keyOf) ==
    { keyOf[x] : x \in { y \in items : \E z \in items :
        keyOf[z] = keyOf[y] /\ balance_conflict_key(z) /= balance_conflict_key(y) } }

merge_balance_snapshot_rows(captures) ==
    LET merged == UNION { captures[c].snapshots : c \in DOMAIN captures }
    IN  [rows |-> merged,
         issues |-> conflict_issues(merged, [x \in merged |-> <<balance_snapshot_semantic_key(x)>>])]

merge_balance_reference_rows(captures) ==
    LET merged == UNION { captures[c].references : c \in DOMAIN captures }
    IN  [rows |-> merged,
         issues |-> conflict_issues(merged, [x \in merged |-> balance_reference_semantic_key(x)])]

(* location_inventory.csv is sorted by its columns: the capture, and further *)
(* right the identifier kind, an alias before an address.                    *)
KindRank(kind) == IF kind = "address_alias" THEN 0 ELSE 1
MergedInventory(captures) ==
    LET rows == UNION { { [r EXCEPT !.capture = c] : r \in captures[c].inventory } :
                        c \in DOMAIN captures }
    IN  Sorted(rows, [r \in rows |-> 2 * r.capture + KindRank(r.kind)])

Assembled(f, captures) ==
    LET balances == merge_balance_snapshot_rows(captures)
        references == merge_balance_reference_rows(captures)
    IN  [f EXCEPT !.snapshots = <<balances.rows>>, !.references = <<references.rows>>,
                  !.inventory = <<MergedInventory(captures)>>,
                  !.conflicts = <<balances.issues \cup references.issues>>, !.by = "assemble"]

----------------------------------------------------------------------------
(* Corroboration: what build_balance_source_inputs reads of each folder, and *)
(* the comparison of every two sources that name one on-chain identity.      *)
SnapshotsOf(s) == IF folder[s].snapshots = <<>> THEN {} ELSE folder[s].snapshots[1]
InventoryOf(s) == IF folder[s].inventory = <<>> THEN <<>> ELSE folder[s].inventory[1]

Identity(row) == << row.id, row.scope >>
IdentityGroups ==
    { g \in UNION { { Identity(r) : r \in Range_(InventoryOf(s)) } : s \in Sources } :
        g[1] /= "" /\ g[2] /= "" }

group_by_source(g) ==
    [s \in Sources |-> { i \in DOMAIN InventoryOf(s) : Identity(InventoryOf(s)[i]) = g }]
high_confidence_rows(g, s) ==
    { i \in group_by_source(g)[s] : HighConfidence(InventoryOf(s)[i]) }

CrossSourceIssue(s, g, kind, suffix) == [source |-> s, group |-> g, kind |-> kind, suffix |-> suffix]
LowConfidence(g, s) == group_by_source(g)[s] /= {} /\ high_confidence_rows(g, s) = {}
AmbiguousIdentity(g, s) == Cardinality(high_confidence_rows(g, s)) > 1

IdentityIssues(g) ==
    { CrossSourceIssue(s, g, "cross_source_low_confidence_identity", 0) :
        s \in { t \in Sources : LowConfidence(g, t) } }
    \cup { CrossSourceIssue(s, g, "cross_source_ambiguous_identity", 0) :
        s \in { t \in Sources : AmbiguousIdentity(g, t) } }

eligible_identities(g) == { s \in Sources : Cardinality(high_confidence_rows(g, s)) = 1 }
EligibleLocation(g, s) == InventoryOf(s)[CHOOSE i \in high_confidence_rows(g, s) : TRUE].location
Comparable(g) == Cardinality(eligible_identities(g)) >= 2

(* The venue of a symbol is no part of the key.                              *)
normalize_instrument_id(instrument) == instrument.base
JoinKey_without_precision(x) ==
    << normalize_instrument_id(x.target.instrument), x.target.kind, x.target.at, "" >>
JoinKey(x) ==
    << normalize_instrument_id(x.target.instrument), x.target.kind, x.target.at, x.target.precision >>

Before(x, y) ==
    \/ x.target.instrument.venue < y.target.instrument.venue
    \/ x.target.instrument.venue = y.target.instrument.venue /\ x.quantity <= y.quantity

balances_for_identity(g, s) ==
    { x \in SnapshotsOf(s) : x.target.location = EligibleLocation(g, s) }

(* Of several rows with one key the first of the file is kept, and each      *)
(* further one is an issue.                                                  *)
index_join_rows(rows) ==
    [k \in { JoinKey(x) : x \in rows } |->
        LET same == { x \in rows : JoinKey(x) = k }
        IN  [kept |-> CHOOSE x \in same : \A y \in same : Before(x, y),
             dropped |-> Cardinality(same) - 1]]

JoinRows(g, s) == index_join_rows(balances_for_identity(g, s))
DuplicateIssues(g) ==
    UNION { UNION { { CrossSourceIssue(s, g, "cross_source_ambiguous_identity", n) :
                        n \in 1 .. JoinRows(g, s)[k].dropped } : k \in DOMAIN JoinRows(g, s) } :
            s \in eligible_identities(g) }

assertion_status(left, right) ==
    IF left = <<>> THEN "missing_left"
    ELSE IF right = <<>> THEN "missing_right"
    ELSE IF left[1].quantity /= right[1].quantity THEN "drift"
    ELSE "matched"

build_assertion(g, s, t, key, left, right) ==
    [left |-> s, right |-> t, group |-> g, key |-> key, status |-> assertion_status(left, right)]

Kept(rows, key) == IF key \in DOMAIN rows THEN << rows[key].kept >> ELSE <<>>

PairAssertions(g, s, t) ==
    LET left == JoinRows(g, s)
        right == JoinRows(g, t)
    IN  { build_assertion(g, s, t, k, Kept(left, k), Kept(right, k)) : k \in DOMAIN left \cup DOMAIN right }

build_cross_source_corroboration ==
    LET compared == { g \in IdentityGroups : Comparable(g) }
    IN  [assertions |->
            UNION { UNION { PairAssertions(g, d[1], d[2]) :
                        d \in { e \in eligible_identities(g) \X eligible_identities(g) :
                                    Rank[e[1]] < Rank[e[2]] } } : g \in compared },
         issues |-> UNION { IdentityIssues(g) : g \in IdentityGroups }
                        \cup UNION { DuplicateIssues(g) : g \in compared }]

summary_payload(result) ==
    [status \in {"matched", "drift", "missing_left", "missing_right"} |->
        Cardinality({ a \in result.assertions : a.status = status })]

----------------------------------------------------------------------------
(* The rebuilt inventory: every row of every folder once, in path order, and *)
(* one line per location with the first of its rows as the primary one.      *)
SourcesInOrder == Sorted(Sources, Rank)
collect_evidence_rows ==
    LET all == FlattenSeq([i \in DOMAIN SourcesInOrder |-> InventoryOf(SourcesInOrder[i])])
    IN  FlattenSeq([i \in DOMAIN all |->
            IF \E h \in 1 .. (i - 1) : all[h] = all[i] THEN <<>> ELSE << all[i] >>])

LocationStatus_always_ready(primary) == "ready"
LocationStatus(primary) == IF primary.kind = "address_alias" THEN "needs_linked_evidence" ELSE "ready"

summarize_location_inventory(rows) ==
    LET at(l) == { i \in DOMAIN rows : rows[i].location = l }
        primary(l) == rows[CHOOSE i \in at(l) : \A j \in at(l) : i <= j]
    IN  [lines |-> { [location |-> l, status |-> LocationStatus(primary(l)), id |-> primary(l).id,
                      sources |-> { rows[i].source : i \in at(l) },
                      evidence |-> Cardinality(at(l))] : l \in { r.location : r \in Range_(rows) } },
         issues |-> { r.id : r \in { x \in Range_(rows) :
                        \E y \in Range_(rows) : y.id = x.id /\ y.kind /= x.kind } },
         rows |-> rows]

----------------------------------------------------------------------------
NoSidecars == [assertions |-> {}, issues |-> {}]
NoAggregate == [lines |-> {}, issues |-> {}, rows |-> <<>>]
NoPackage == [root |-> "missing"]

Init == /\ folder = [s \in Sources |-> EmptyFolder]
        /\ package = [s \in Sources |-> NoPackage]
        /\ sidecars = [result |-> NoSidecars, counts |-> summary_payload(NoSidecars)]
        /\ aggregate = NoAggregate
        /\ last = <<"none">>
        /\ commands = 0

Command(c) == commands < MaxCommands /\ commands' = commands + 1 /\ last' = c

(* source submit-balances                                                    *)
SubmitBalances(s, p) ==
    /\ Command(<<"submit", s>>)
    /\ folder' = [folder EXCEPT ![s] = Submitted(@, p, s)]
    /\ package' = [package EXCEPT ![s] = p]
    /\ UNCHANGED <<sidecars, aggregate>>

(* source assemble, of captures without facts                                *)
AssembleSource(s, captures) ==
    /\ Command(<<"assemble", s>>)
    /\ folder' = [folder EXCEPT ![s] = Assembled(@, captures)]
    /\ UNCHANGED <<package, sidecars, aggregate>>

(* The corroboration that ends reconciliation balances check                 *)
CorroborateSources ==
    /\ Command(<<"check">>)
    /\ sidecars' = [result |-> build_cross_source_corroboration,
                    counts |-> summary_payload(build_cross_source_corroboration)]
    /\ UNCHANGED <<folder, package, aggregate>>

(* Rebuilding the location inventory                                         *)
RebuildLocationInventory ==
    /\ Command(<<"rebuild">>)
    /\ aggregate' = summarize_location_inventory(collect_evidence_rows)
    /\ UNCHANGED <<folder, package, sidecars>>

Next == \/ \E d \in Submissions : SubmitBalances(d[1], d[2])
        \/ \E d \in Assemblies : AssembleSource(d[1], d[2])
        \/ CorroborateSources
        \/ RebuildLocationInventory

Spec == Init /\ [][Next]_vars

----------------------------------------------------------------------------
(* Types: a folder holds targets of its own source only, and one that a      *)
(* submission wrote has one quantity for each target.                        *)
TypeOK ==
    /\ commands \in 0 .. MaxCommands
    /\ \A s \in Sources :
        /\ folder[s].by \in {"nobody", "submit", "assemble"}
        /\ \A x \in SnapshotsOf(s) : x.target.source = s /\ x.quantity \in Int
        /\ folder[s].by = "submit" =>
            \A x, y \in SnapshotsOf(s) : x.target = y.target => x = y

ReferencesOf(s) == IF folder[s].references = <<>> THEN {} ELSE folder[s].references[1]
JustSubmitted(s) == last = <<"submit", s>>
Accepted(s) == JustSubmitted(s) /\ folder[s].summary /= <<>> /\ folder[s].summary[1].ready

(* Two rows of a file are respelled when they are written differently and    *)
(* are of one target.                                                        *)
RespelledRows(rows, source) ==
    LET target(i) == BalanceTarget(validate_balance_like_row(rows[i], source).parsed[1])
    IN  \E i, j \in DOMAIN rows : i /= j /\ target(i) = target(j)
Respelled(s) ==
    \/ RespelledRows(read_rows(package[s].snapshots), s)
    \/ RespelledRows(read_rows(package[s].references), s)

(* "Each balance_snapshots.csv row must have exactly one matching            *)
(* balance_references.csv row" (consistency.py): what an accepted package    *)
(* publishes is, row by row, a balance and one operator reference for the    *)
(* same target and quantity, and nothing of the package is lost on the way.  *)
PackageIsPaired(s) ==
    /\ Cardinality(SnapshotsOf(s)) = Len(package[s].snapshots.rows)
    /\ Cardinality(ReferencesOf(s)) = Len(package[s].references.rows)
    /\ \A x \in SnapshotsOf(s) :
        Cardinality({ r \in ReferencesOf(s) : r.target = x.target /\ r.quantity = x.quantity }) = 1
    /\ \A r \in ReferencesOf(s) : \E x \in SnapshotsOf(s) : r.target = x.target /\ r.quantity = x.quantity

(* An accepted package is published in pairs, unless it names one target in  *)
(* two spellings.                                                            *)
AcceptedIsPaired == \A s \in Sources : Accepted(s) /\ ~Respelled(s) => PackageIsPaired(s)

(* The same without the proviso, which is what the documentation says.       *)
EveryRowPaired == \A s \in Sources : Accepted(s) => PackageIsPaired(s)

(* The summary a submission leaves is true of the folder: ready means        *)
(* balances and references are there and no issue is; blocked, or no         *)
(* summary at all, that nothing of an earlier submission or assembly is      *)
(* left to be checked in their place.                                        *)
SummaryIsOfFolder ==
    \A s \in Sources : JustSubmitted(s) =>
        LET f == folder[s]
            ready == f.summary /= <<>> /\ f.summary[1].ready
        IN  /\ ready <=> f.snapshots /= <<>>
            /\ ready <=> f.references /= <<>>
            /\ f.inventory /= <<>> => ready
            /\ f.issues /= <<>> <=> f.summary /= <<>> /\ f.summary[1].blocked

(* A submission is accepted only if its rows pair up, and the folder and its *)
(* summary are what the verdict says.                                        *)
SubmissionHolds == AcceptedIsPaired /\ SummaryIsOfFolder

(* An accepted package gives a location at most one high-confidence          *)
(* identity, unless it names the location in two spellings: otherwise a      *)
(* later corroboration would compare one location as two.                    *)
OneIdentityPerLocation ==
    \A s \in Sources : Accepted(s) =>
        LET rows == read_rows(package[s].inventory)
            inv == InventoryOf(s)
        IN  \A i, j \in DOMAIN inv :
                /\ HighConfidence(inv[i]) /\ HighConfidence(inv[j])
                /\ inv[i].location = inv[j].location
                /\ <<rows[i].account, rows[i].wallet>> = <<rows[j].account, rows[j].wallet>>
                => Identity(inv[i]) = Identity(inv[j])

(* Two rows of an assembled dataset that give one target two balances, or    *)
(* one observation two quantities, are reported with the dataset.            *)
ConflictsReported ==
    \A s \in Sources : folder[s].by = "assemble" =>
        /\ \A x, y \in SnapshotsOf(s) : x.target = y.target =>
            x = y \/ <<x.target>> \in folder[s].conflicts[1]
        /\ \A x, y \in ReferencesOf(s) :
            /\ x /= y /\ x.target = y.target /\ x.kind = y.kind
            /\ x.observed = y.observed /\ x.reviewed = y.reviewed
            => << x.target, x.kind, x.observed, x.reviewed >> \in folder[s].conflicts[1]

----------------------------------------------------------------------------
(* A source holds an identity at a location, surely, when that is the only   *)
(* high-confidence row of the source with the identity.                      *)
Holds(s, g, l) ==
    \E i \in DOMAIN InventoryOf(s) :
        /\ InventoryOf(s)[i].location = l
        /\ \A j \in DOMAIN InventoryOf(s) :
            Identity(InventoryOf(s)[j]) = g /\ HighConfidence(InventoryOf(s)[j]) <=> j = i
SameBalance(x, y) ==
    /\ x.target.instrument.base = y.target.instrument.base
    /\ << x.target.kind, x.target.at, x.target.precision >> =
       << y.target.kind, y.target.at, y.target.precision >>
OnlyOne(s, x) ==
    \A y \in SnapshotsOf(s) : y.target.location = x.target.location /\ SameBalance(x, y) => y = x

(* The sidecars say of two sources what a reader of the two datasets would:  *)
(* where both surely hold an identity and each gives one balance for the     *)
(* instrument, kind and time, there is one assertion, it says matched when   *)
(* the quantities are equal and drift otherwise; and nothing is called       *)
(* matched without two such locations with that balance.                     *)
CorroborationAgrees ==
    last = <<"check">> =>
        /\ \A s, t \in Sources : \A g \in IdentityGroups : \A x \in SnapshotsOf(s), y \in SnapshotsOf(t) :
            /\ Rank[s] < Rank[t] /\ SameBalance(x, y)
            /\ Holds(s, g, x.target.location) /\ Holds(t, g, y.target.location)
            /\ OnlyOne(s, x) /\ OnlyOne(t, y)
            => { a.status : a \in { b \in sidecars.result.assertions :
                    b.left = s /\ b.right = t /\ b.group = g /\ b.key = JoinKey(x) } }
               = { IF x.quantity = y.quantity THEN "matched" ELSE "drift" }
        /\ \A a \in sidecars.result.assertions : a.status = "matched" =>
            \E x \in SnapshotsOf(a.left), y \in SnapshotsOf(a.right) :
                /\ SameBalance(x, y) /\ x.quantity = y.quantity
                /\ Holds(a.left, a.group, x.target.location)
                /\ Holds(a.right, a.group, y.target.location)

(* A balance that a source holds under an identity with high confidence, and *)
(* that another source names too, is compared with it or an issue names one  *)
(* of the two sources: it is never passed over silently.                     *)
NothingSkippedSilently ==
    last = <<"check">> =>
        \A s, t \in Sources : \A g \in IdentityGroups : \A x \in SnapshotsOf(s) :
            /\ s /= t
            /\ \E r \in Range_(InventoryOf(s)) :
                Identity(r) = g /\ HighConfidence(r) /\ r.location = x.target.location
            /\ \E r \in Range_(InventoryOf(t)) : Identity(r) = g
            => \/ \E a \in sidecars.result.assertions :
                    a.group = g /\ {a.left, a.right} = {s, t} /\ a.key = JoinKey(x)
               \/ \E i \in sidecars.result.issues : i.group = g /\ i.source \in {s, t}

(* Corroboration says of two sources what their balances say, or why not.    *)
CorroborationComplete == CorroborationAgrees /\ NothingSkippedSilently

(* The rebuilt inventory has every location of every folder in one line,     *)
(* counts each row of evidence once, and calls no location ready for which   *)
(* only an alias is known.                                                   *)
AggregateIsSound ==
    last = <<"rebuild">> =>
        LET published == UNION { Range_(InventoryOf(s)) : s \in Sources }
        IN  /\ \A r \in published :
                \E l \in aggregate.lines :
                    /\ \A k \in aggregate.lines : k.location = r.location <=> k = l
                    /\ r.source \in l.sources
            /\ \A l \in aggregate.lines :
                /\ l.evidence = Cardinality({ r \in published : r.location = l.location })
                /\ l.status = "ready" => \E r \in published :
                    r.location = l.location /\ r.kind /= "address_alias"
                /\ \E r \in published : r.location = l.location /\ r.id = l.id

(* A location is one identity where it is accepted and one line where it is  *)
(* summed up, ready only on the evidence of its folders.                     *)
LocationsAreSound == OneIdentityPerLocation /\ AggregateIsSound

============================================================================
