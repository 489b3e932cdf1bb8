--------------------------- MODULE MCClaimProducts ---------------------------
EXTENDS ClaimProducts

Row(id, type, ts, asset, qty) ==
    [id |-> id, type |-> type, ts |-> ts, asset |-> asset, cur |-> "cad", qty |-> qty,
     subtotal |-> <<>>, total |-> <<>>, fee |-> <<>>]

\* Purchases and sales with and without fee and subtotal, one in the quote currency's own
\* asset, income, transfers, migrations in pairs and in threes, rows that cannot be read.
MCRows == {
    [Row(1, "buy", 2, "btc", <<2>>) EXCEPT !.total = <<5>>, !.fee = <<1>>],
    [Row(2, "sell", 3, "btc", <<1>>) EXCEPT !.subtotal = <<3>>, !.fee = <<1>>],
    [Row(2, "buy", 3, "btc", <<1>>) EXCEPT !.total = <<1>>, !.fee = <<1>>],
    Row(3, "reward income", 3, "btc", <<1>>),
    Row(1, "send", 2, "btc", <<-1>>),
    Row(4, "deposit", 1, "btc", <<2>>),
    Row(5, "receive", 1, "", <<2>>),
    Row(6, "asset migration", 2, "btc", <<-1>>),
    Row(7, "asset migration", 2, "eth", <<1>>),
    Row(8, "asset migration", 2, "eth", <<2>>),
    Row(8, "asset migration", 2, "", <<1>>),
    [Row(9, "sell", 3, "btc", <<1>>) EXCEPT !.subtotal = <<3>>, !.fee = <<1>>, !.cur = ""],
    Row(8, "asset migration", 0, "eth", <<2>>),
    Row(9, "staking transfer", 2, "eth", <<1>>)}

Balance(row, wallet, asset, qty, asof) ==
    [member |-> 10, row |-> row, wallet |-> wallet, account |-> "", asset |-> asset,
     qty |-> qty, asof |-> asof]

\* Statement rows of one instant that agree and disagree, at the root and at a wallet.
MCBalances == {
    Balance(1, "", "btc", 2, 2), Balance(2, "coinbase", "btc", 1, 2), Balance(3, "", "btc", 1, 3),
    [Balance(1, "", "btc", 2, 2) EXCEPT !.member = 11], Balance(4, "vault", "btc", 0, 2)}

MCFileName == (1 :> 1) @@ (2 :> 2) @@ (3 :> 1)
MCPreamble == (1 :> 0) @@ (2 :> 2) @@ (3 :> 0)
MCWindows == {[start |-> 0, end |-> 0], [start |-> 2, end |-> 2]}
=============================================================================
