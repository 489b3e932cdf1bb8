------------------------- MODULE MCSourceProfiling -------------------------
(* Instances of SourceProfiling: exports of the four providers as they write *)
(* them, in the clocks, spellings and orders the adapters meet.              *)
EXTENDS SourceProfiling

MCLabels == {"binance", "archive"}
MCLabelNames == [label_ \in MCLabels |-> IF label_ = "binance" THEN {"binance"} ELSE {}]

Words(n) == [i \in 1 .. n |-> "keyword"]
Titled == <<<<"blank">>, <<"text">>, <<"text", "text", "text">>, Words(11)>>
Capitals == <<<<"CAPITALS", "CAPITALS", "value", "text", "value">>,
              <<"mark", "value", "text", "text", "value">>>>

(* An export of these instants: the rows in that order, in the local clock   *)
(* of an offset.                                                             *)
Export(path, provider, layout, top, at) ==
    [path |-> path, provider |-> provider, layout |-> layout, top |-> top, header_at |-> at,
     header_utc |-> FALSE, sign |-> <<>>, hours |-> 0, anchors |-> {}, format |-> NoFormat,
     cells |-> <<>>, written |-> <<>>, unreadable |-> FALSE]
InClock(export, kind, offset, instants) ==
    [export EXCEPT
       !.cells = [i \in DOMAIN instants |-> Cell(kind, instants[i] + offset, offset, NoSlash)],
       !.written = instants]
Named(export, sign, hours) == [export EXCEPT !.sign = sign, !.hours = hours]

Day == 24 * DayNumber(2026, 3, 23)
Morning == <<Day + 10, Day + 11>>
Noon == <<Day + 11, Day + 13>>
Evening == <<Day + 22, Day + 20>>
Binance(path, layout) == Export(path, "binance", layout, <<Words(7)>>, 1)
Coinbase(path, layout, top, at) == Export(path, "coinbase", layout, top, at)
CryptoCom(path) ==
    [Export(path, "crypto_com", "transaction_export", <<Words(10)>>, 1) EXCEPT !.header_utc = TRUE]

(* A gTrade report of <<month, day>> dates of 2023 in a format.              *)
Written(format, date) ==
    IF format = "%d/%m/%Y" THEN SlashDate(date[2], date[1], 2023)
    ELSE SlashDate(date[1], date[2], 2023)
GTrade(path, format, dates, anchors) ==
    [Export(path, "gtrade", "realized_pnl_report", Capitals, 1) EXCEPT
       !.format = format,
       !.anchors = {DayNumber(2023, date[1], date[2]) : date \in anchors},
       !.cells = [i \in DOMAIN dates |-> Cell("slash", 0, 0, Written(format, dates[i]))],
       !.written = [i \in DOMAIN dates |-> 24 * DayNumber(2023, dates[i][1], dates[i][2])]]

AllExports ==
    {InClock(Named(Binance("spot-west", "spot_trade_history"), <<"-", "-">>, 6), "plain", -6, Morning),
     InClock(Named(Binance("spot-mid", "spot_trade_history"), <<"-", "-">>, 1), "plain", -1, Noon),
     InClock(Named(Binance("deposits-dash", "deposit_history"), <<"-">>, 6), "plain", -6, Evening),
     InClock(Named(Binance("deposits-east", "deposit_history"), <<"-", "+">>, 8), "plain", 8, Morning),
     InClock(Binance("spot-bare", "spot_trade_history"), "plain", 0, Morning),
     [Named(Binance("spot-empty", "spot_trade_history"), <<"-", "-">>, 6) EXCEPT
        !.cells = <<Cell("no_data", 0, 0, NoSlash)>>],
     InClock(Coinbase("retail", "retail_export", Titled, 4), "utc", 0, Evening),
     InClock(Coinbase("pro", "pro_statement", <<Words(9)>>, 1), "utc", 0, Morning),
     InClock(Coinbase("pro-local", "pro_statement", <<Words(9)>>, 1), "offset", 2, Noon),
     InClock(CryptoCom("crypto"), "plain", 0, Evening),
     InClock(CryptoCom("crypto-local"), "offset", -6, Morning),
     GTrade("pnl-ordered", "%d/%m/%Y", <<<<2, 1>>, <<2, 2>>, <<3, 1>>>>, {}),
     GTrade("pnl-sparse", "%d/%m/%Y", <<<<1, 5>>, <<3, 5>>, <<4, 6>>>>, {}),
     GTrade("pnl-anchored", "%d/%m/%Y", <<<<5, 6>>>>, {<<5, 6>>}),
     GTrade("pnl-december", "%m/%d/%Y", <<<<12, 5>>>>, {}),
     GTrade("pnl-bounds", "%m/%d/%Y", <<<<5, 6>>, <<5, 13>>>>, {}),
     [Export("portfolio", "binance", "undated", <<Words(6)>>, 1) EXCEPT
        !.cells = <<Cell("blank", 0, 0, NoSlash)>>],
     [Export("export.7z", "binance", "undated", <<>>, 0) EXCEPT !.unreadable = TRUE]}

MCExports ==
    [path \in {export.path : export \in AllExports} |->
       CHOOSE export \in AllExports : export.path = path]
=============================================================================
