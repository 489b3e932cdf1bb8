------------------------ MODULE MCBalanceSubmission ------------------------
(* Instances of BalanceSubmission.  Source "a" submits packages, "b" submits *)
(* or is assembled, "c" is assembled.                                        *)
EXTENDS BalanceSubmission

MCSources == {"a", "b", "c"}
MCRank == [s \in MCSources |-> CASE s = "a" -> 1 [] s = "b" -> 2 [] s = "c" -> 3]

MCPart == [t \in {"main", "Main", "cold", "--"} |->
            CASE t = "Main" -> "main" [] t = "--" -> "" [] OTHER -> t]
MCDecimals == [t \in {"1", "1.0", "2", "one"} |->
                CASE t \in {"1", "1.0"} -> <<1>> [] t = "2" -> <<2>> [] OTHER -> <<>>]
TimeTexts == {"2026-03-03", "2026-03-3", "2026-03-04", "2026-03-03 00:00:00", "soon"}
MCTimes ==
    [p \in {"date", "timestamp"} |-> [t \in TimeTexts |->
        CASE p = "date" /\ t \in {"2026-03-03", "2026-03-3"} -> <<3>>
          [] p = "date" /\ t = "2026-03-04" -> <<4>>
          [] p = "timestamp" /\ t = "2026-03-03 00:00:00" -> <<3>>
          [] OTHER -> <<>>]]
MCSymbol == [t \in {"symbol:BTC", "symbol:BTC@a", "symbol:BTC@b"} |->
    [base |-> "BTC", venue |-> CASE t = "symbol:BTC" -> 0 [] t = "symbol:BTC@a" -> 1 [] OTHER -> 2]]
MCLower == [t \in {"0xAB", "0xab", "0xCD", "high", "High", "low", ""} |->
    CASE t = "0xAB" -> "0xab" [] t = "0xCD" -> "0xcd" [] t = "High" -> "high" [] OTHER -> t]

(* Rows as an operator may write them.                                       *)
Row(s) == [source |-> s, account |-> "main", wallet |-> "main", instrument |-> "symbol:BTC@a",
           quantity |-> "1", at |-> "2026-03-03", precision |-> "date", kind |-> "available",
           extra |-> FALSE]
Ref(r) == [source |-> r.source, account |-> r.account, wallet |-> r.wallet,
           instrument |-> r.instrument, quantity |-> r.quantity, at |-> r.at,
           precision |-> r.precision, kind |-> r.kind, extra |-> r.extra,
           reference_kind |-> "operator_assertion", observed_at |-> "2026-03-04",
           observed_precision |-> "date", reviewed_by |-> "op",
           reviewed_at |-> "2026-03-03 00:00:00"]
Loc(s) == [source |-> s, account |-> "main", wallet |-> "main", identifier_kind |-> "evm_address",
           identifier_value |-> "0xAB", scope |-> "eth", confidence |-> "high", extra |-> FALSE]

File(rows) == [state |-> "ok", rows |-> rows]
Missing == [state |-> "missing"]
Package(rows, refs, locs) ==
    [root |-> "there", snapshots |-> File(rows), references |-> File(refs), inventory |-> locs]

Day == Row("a")
Respelt == [Day EXCEPT !.at = "2026-03-3"]
RowLists ==
    { <<>>, <<Day>>, <<Respelt>>, <<Day, Respelt>>, <<Day, [Day EXCEPT !.quantity = "2"]>>,
      <<Day, [Day EXCEPT !.account = "Main", !.wallet = "Main", !.quantity = "2"]>>,
      <<Day, [Day EXCEPT !.wallet = "cold"]>>,
      <<Day, [Day EXCEPT !.at = "2026-03-03 00:00:00", !.precision = "timestamp"]>>,
      <<Day, [Day EXCEPT !.instrument = "symbol:BTC", !.quantity = "2"]>>,
      <<[Day EXCEPT !.quantity = "1.0"]>> }
RefsOf(rows) == [i \in DOMAIN rows |-> Ref(rows[i])]
Matched == { Package(x, RefsOf(y), Missing) : x, y \in RowLists }

(* One cell, or one file, of a valid package is wrong.                       *)
Edits(r, fields, value) == { [r EXCEPT ![f] = value] : f \in fields }
Faulty ==
    { Package(<<r>>, <<Ref(Day)>>, Missing) :
        r \in Edits(Day, BalanceFields, "") \cup Edits(Day, {"quantity"}, "one")
              \cup Edits(Day, {"precision", "at"}, "soon") \cup Edits(Day, {"source"}, "b")
              \cup Edits(Day, {"extra"}, TRUE) }
    \cup { Package(<<Day>>, <<r>>, Missing) :
        r \in Edits(Ref(Day), ReferenceFields \cup {"account"}, "")
              \cup Edits(Ref(Day), {"reference_kind"}, "network_api")
              \cup Edits(Ref(Day), {"reference_kind", "observed_at", "reviewed_at"}, "soon") }
    \cup { Package(<<[Day EXCEPT !.account = "--"]>>, <<Ref([Day EXCEPT !.account = "--"])>>, Missing),
           [Package(<<Day>>, <<Ref(Day)>>, Missing) EXCEPT !.root = "missing"],
           [Package(<<Day>>, <<Ref(Day)>>, Missing) EXCEPT !.references = Missing],
           [Package(<<Day>>, <<Ref(Day)>>, Missing) EXCEPT !.snapshots = [state |-> "bad_header"]] }

Locs(s) ==
    { Loc(s), [Loc(s) EXCEPT !.identifier_value = "0xab", !.confidence = "High"],
      [Loc(s) EXCEPT !.identifier_kind = "address_alias"],
      [Loc(s) EXCEPT !.account = "cold", !.wallet = "cold"],
      [Loc(s) EXCEPT !.account = "Main", !.wallet = "Main", !.identifier_value = "0xCD"],
      [Loc(s) EXCEPT !.confidence = "low"], [Loc(s) EXCEPT !.scope = ""],
      [Loc(s) EXCEPT !.wallet = "--"] }
LocLists(s) == { <<x>> : x \in Locs(s) } \cup { <<x, y>> : x, y \in Locs(s) }
Cold == [Day EXCEPT !.wallet = "cold", !.account = "cold", !.quantity = "2"]
Located ==
    { Package(<<Day, Cold>>, <<Ref(Day), Ref(Cold)>>, File(l)) : l \in LocLists("a") }
    \cup { Package(<<Day>>, <<Ref(Day)>>, File(<<Loc("a"), [Loc("a") EXCEPT !.confidence = ""]>>)) }
    \cup { Package(rows, RefsOf(rows), File(<<Loc("a")>>)) :
            rows \in { l \in RowLists : Len(l) = 2 } }

OfB(q) == [Row("b") EXCEPT !.quantity = q]
MCSubmissions ==
    ({"a"} \X (Matched \cup Faulty \cup Located))
    \cup ({"b"} \X { Package(<<OfB(q)>>, <<Ref(OfB(q))>>, File(<<l>>)) :
                        q \in {"1", "2"}, l \in {Loc("b"), [Loc("b") EXCEPT !.confidence = "low"]} })

(* Captures as an assembly finds them.                                       *)
Target(s, l, v, p) == [source |-> s, location |-> l, instrument |-> [base |-> "BTC", venue |-> v],
                       kind |-> "available", at |-> 3, precision |-> p]
Snap(s, v, p, q) == [target |-> Target(s, <<s, "main">>, v, p), quantity |-> q]
Observed(s, q) == [target |-> Target(s, <<s, "main">>, 2, "date"), quantity |-> q,
                   kind |-> "source_document", observed |-> <<3, "date">>, reviewed |-> <<"", 0>>]
Known(s, kind, conf) == [source |-> s, capture |-> 0, location |-> <<s, "main">>, kind |-> kind,
                         id |-> "0xab", scope |-> "eth", confidence |-> conf]
Capture(x, r, i) == [snapshots |-> x, references |-> r, inventory |-> i]
MCAssemblies ==
    { <<"b", <<Capture({Snap("b", 2, "date", 1)}, {Observed("b", 1)}, {Known("b", "evm_address", "high")})>> >>,
      <<"b", <<Capture({Snap("b", 2, "date", 1)}, {Observed("b", 1)}, {Known("b", "evm_address", "high")}),
               Capture({Snap("b", 2, "date", 2)}, {Observed("b", 2)}, {})>> >>,
      <<"b", <<Capture({Snap("b", 2, "date", 2), Snap("b", 2, "timestamp", 1)}, {},
                       {Known("b", "evm_address", "high"), Known("b", "address_alias", "low")})>> >>,
      <<"c", <<Capture({Snap("c", 0, "date", 1), Snap("c", 2, "date", 2)}, {},
                       {Known("c", "evm_address", "High")})>> >>,
      <<"c", <<Capture({Snap("c", 0, "date", 2)}, {},
                       {Known("c", "evm_address", "high"), Known("c", "address_alias", "high")})>> >>,
      <<"c", <<Capture({}, {}, {Known("c", "address_alias", "low")}),
               Capture({Snap("c", 0, "date", 2)}, {}, {Known("c", "evm_address", "high")})>> >> }
============================================================================
