------------------------- MODULE MCEvidenceSelection -------------------------
EXTENDS EvidenceSelection

\* Ranges that are equal, nested, touching, overlapping, disjoint, half-known and unknown.
Ranges == {<<1, 2>>, <<2, 3>>, <<3, 4>>, <<1, 4>>, <<4, 4>>, <<2, 0>>, <<0, 0>>}

\* Coinbase's retail exports: one group, ranked by export date or by name.
Coinbase(path, range, kind, rank, sha) ==
    [path |-> path, members |-> {path}, first |-> range[1], last |-> range[2], kind |-> kind, rank |-> rank,
     sha |-> sha, group |-> "retail", mode |-> "replaceable_range", key |-> "retail",
     comparable |-> TRUE]

Retail == { Coinbase(p, r, "export_timestamp", k, 10 * p + k) : p \in 1..3, r \in Ranges, k \in 1..2 }
    \cup { Coinbase(p, r, "adapter_rank", 1, 10 * p) : p \in 1..3, r \in {<<1, 2>>, <<1, 4>>} }
    \cup { Coinbase(p, <<1, 2>>, "export_timestamp", 1, 99) : p \in 1..2 }

\* What another planning adapter may describe: ranges to append, snapshots, incomparable files.
Other == { [path |-> p, members |-> IF m = "exclusive_snapshot" THEN {4, 5} ELSE {p}, first |-> r[1], last |-> r[2], kind |-> "capture_completed_at", rank |-> p,
            sha |-> s, group |-> "other", mode |-> m, key |-> k, comparable |-> k = "a"] :
            p \in 4..5, r \in {<<1, 2>>, <<2, 4>>, <<3, 4>>}, s \in {1}, k \in {"a", "b"},
            m \in {"appendable_range", "exclusive_snapshot"} }

MCExports == Retail \cup Other

Row(place, kind, asset, qty, asof) ==
    [place |-> place, kind |-> kind, asset |-> asset, qty |-> qty, stated |-> TRUE,
     asof |-> asof, known |-> asset # "new"]

Blank(row) == [row EXCEPT !.stated = FALSE]

Document(path, effective, asof, rows) ==
    [path |-> path, effective |-> effective, asof |-> asof, rows |-> rows,
     matches |-> TRUE, recognized |-> TRUE]

\* Period statements (dated by their file name), portfolio statements, annual reports.
\* Some name a balance twice, some leave one blank that they or an older one state.
MCDocuments == {
    Document(1, 1, 2, <<Row("spot", "available", "btc", 3, 2), Row("earn", "available", "eth", 1, 2),
                        Row("earn", "available", "sol", 9, 2)>>),
    Document(2, 2, 2, <<Row("spot", "available", "btc", 4, 2), Row("spot", "available", "new", 4, 2),
                        Blank(Row("earn", "available", "eth", 0, 2)),
                        Row("earn", "available", "eth", 8, 2)>>),
    Document(3, 2, 1, <<Row("spot", "available", "btc", 5, 1), Row("spot", "available", "btc", 6, 1)>>),
    Document(4, 0, 3, <<Row("source", "asset_balance", "btc", 2, 3),
                        Row("cash", "cash_closing_balance", "cad", 7, 3)>>),
    Document(5, 0, 3, <<Row("source", "asset_balance", "btc", 1, 3)>>),
    Document(6, 0, 0, <<Blank(Row("personal", "closing_market_value", "", 0, 0))>>),
    [Document(7, 0, 0, <<>>) EXCEPT !.recognized = FALSE]}
=============================================================================
