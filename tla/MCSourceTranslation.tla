------------------------ MODULE MCSourceTranslation ------------------------
(* Instances of SourceTranslation: the captures and the rows they may hold. *)
EXTENDS SourceTranslation

At(t) == [at |-> t, form |-> "plain"]
Bad == [at |-> 0, form |-> "bad"]
NoTime == [at |-> 0, form |-> "blank"]
F(family, name) == [family |-> family, name |-> name, rows |-> <<>>]


Raw == [time |-> At(5), hash |-> 1, from |-> "them", to |-> "me", method |-> "transfer",
        asset |-> "AXS", in |-> <<2>>, out |-> <<>>, fee |-> <<1>>, precise |-> TRUE,
        status |-> "success", garbled |-> FALSE]
Summary == [time |-> At(3), hash |-> 1, action |-> "transfer", wallet |-> "me", from |-> "them",
            to |-> "me", asset |-> "AXS", amount |-> <<2>>, garbled |-> FALSE]

(* Two transactions in both exports, on whose clocks they differ, and a third   *)
(* that only the summary shows.                                                *)
RoninClocks ==
    { [adapter |-> "ronin",
       files |-> << [F("explorer_export", {"me"}) EXCEPT
                        !.rows = << Raw, [Raw EXCEPT !.hash = 2, !.time = At(late)] >>],
                    [F("action_summary", {}) EXCEPT
                        !.rows = << Summary, [Summary EXCEPT !.hash = 2, !.time = At(7)],
                                    [Summary EXCEPT !.hash = 3, !.time = At(t)] >>] >>]
      : t \in 1 .. 9, late \in 7 .. 11 }

MCCaptures ==
    { [adapter |-> "binance", files |-> << F("history", ""), F("convert", ""), F("c2c", "") >>],
      [adapter |-> "binance", files |-> << F("history", ""), F("withdraw", ""), F("spot", "") >>],
      [adapter |-> "binance", files |-> << F("deposit", ""), F("unknown", ""), F("convert", "") >>],
      [adapter |-> "shakepay", files |-> << F("cash", ""), F("crypto", "") >>],
      [adapter |-> "wealthsimple", files |-> << F("activity", ""), F("unknown", "") >>],
      [adapter |-> "crypto_com", files |-> << F("transactions", "") >>],
      [adapter |-> "gtrade", files |-> << F("trades", "") >>],
      [adapter |-> "structured_csv", files |-> << F("structured", ""), F("structured", "") >>],
      [adapter |-> "near", files |-> << F("base_transactions", "me"), F("base_transactions", ""),
                                        F("receipts", "me") >>],
      [adapter |-> "ledger_live", files |-> << F("operations", ""), F("operations", "") >>],
      [adapter |-> "evm_explorer", files |-> << F("token_transfers", {"me"}),
                                    F("native_transfers", {"own"}), F("nft_transfers", {}) >>],
      [adapter |-> "evm_explorer", files |-> << F("token_transfers", {}),
                                    F("internal_transfers", {}), F("native_transfers", {}) >>],
      [adapter |-> "ronin", files |-> << F("explorer_export", {"me"}), F("action_summary", {}),
                                         F("explorer_export", {}) >>],
      [adapter |-> "ronin", files |-> << F("action_summary", {}) >>] }
    \cup RoninClocks

MCMaxRows ==
    [a \in { c.adapter : c \in MCCaptures } |->
        IF a \in {"binance", "ronin", "evm_explorer", "ledger_live"} THEN 3 ELSE 2]

Spot == [time |-> At(5), side |-> "BUY", base |-> "BTC", quote |-> "USD", executed |-> <<1>>,
         amount |-> <<3>>, fee |-> <<>>, feeAsset |-> "", garbled |-> FALSE]
Funding == [time |-> At(5), status |-> "completed", amount |-> <<2>>, fee |-> <<>>, coin |-> "BTC",
            garbled |-> FALSE]
Convert == [time |-> At(5), status |-> "successful", buy |-> <<1>>, buyAsset |-> "BTC",
            sell |-> <<2>>, sellAsset |-> "ETH", garbled |-> FALSE]
C2c == [time |-> At(5), status |-> "completed", side |-> "BUY", qty |-> <<1>>, price |-> <<2>>,
        asset |-> "BTC", fiat |-> "USD", order |-> 9, garbled |-> FALSE]
History == [time |-> At(5), account |-> "Spot", op |-> "Binance Convert", coin |-> "BTC",
            change |-> <<1>>, garbled |-> FALSE]
Dust == [History EXCEPT !.op = "Small Assets Exchange BNB"]
Shakepay == [time |-> At(1), type |-> "Buy", credit |-> <<>>, debit |-> <<>>, creditAsset |-> "",
             debitAsset |-> "", market |-> <<>>, marketCur |-> "", book |-> <<>>, bookCur |-> "",
             garbled |-> FALSE]
Credited == [Shakepay EXCEPT !.credit = <<2>>, !.creditAsset = "BTC"]
Debited == [Shakepay EXCEPT !.debit = <<1>>, !.debitAsset = "BTC"]
Trade == [time |-> At(1), settled |-> Bad, account |-> "crypto", type |-> "trade", subtype |-> "BUY",
          qty |-> <<2>>, net |-> << -5 >>, commission |-> <<1>>, symbol |-> "BTC",
          currency |-> "CAD", garbled |-> FALSE]
Viban == [time |-> At(1), kind |-> "viban_purchase", amount |-> << -2 >>, currency |-> "CAD",
          toAmount |-> <<1>>, toCurrency |-> "BTC", garbled |-> FALSE]
Pnl == [time |-> At(1), pnl |-> <<2>>, alias |-> "0x1", garbled |-> FALSE]
Part(asset, amount) == [asset |-> asset, amount |-> amount]
Side(asset, amount, side) == [asset |-> asset, amount |-> amount, side |-> side]
Structured == [time |-> At(1), category |-> "trade", account |-> "a", wallet |-> "w",
               in |-> Part("BTC", <<1>>), out |-> Part("", <<>>), charge |-> Side("", <<>>, ""),
               rebate |-> Side("", <<>>, ""), garbled |-> FALSE]
Near == [time |-> At(1), method |-> "transfer", amount |-> <<2>>, fee |-> <<1>>, from |-> "",
         to |-> "me", hash |-> 1, garbled |-> FALSE]
Ledger == [time |-> At(1), hash |-> 1, type |-> "IN", amount |-> <<2>>, asset |-> "ETH",
           account |-> "a", xpub |-> "x", garbled |-> FALSE]
Evm == [time |-> At(1), hash |-> 1, method |-> "", from |-> "them", to |-> "me", in |-> <<2>>,
        out |-> <<>>, garbled |-> FALSE]
Token == [time |-> At(1), hash |-> 1, from |-> "them", to |-> "me", amount |-> <<2>>,
          asset |-> "USDC", contract |-> "c", garbled |-> FALSE]
MCRowsOf ==
    [history |-> { History, [History EXCEPT !.time = At(7)], [History EXCEPT !.op = "P2P Trading"],
                   [History EXCEPT !.op = "Simple Earn Flexible Redemption", !.time = At(1)],
                   [History EXCEPT !.op = "Airdrop"], [History EXCEPT !.time = Bad],
                   [History EXCEPT !.op = "ETH 2.0 Staking Rewards"], Dust,
                   [Dust EXCEPT !.coin = "ETH", !.change = << -1 >>],
                   [Dust EXCEPT !.coin = "DOT", !.change = << -2 >>],
                   [History EXCEPT !.op = "No data matches the criteria."] },
     convert |-> { Convert, [Convert EXCEPT !.status = "failed"], [Convert EXCEPT !.sell = <<>>],
                   [Convert EXCEPT !.time = Bad], [Convert EXCEPT !.time = At(7), !.buy = <<0>>],
                   [Convert EXCEPT !.garbled = TRUE], [Convert EXCEPT !.time = At(7)] },
     c2c |-> { C2c, [C2c EXCEPT !.side = "SELL", !.order = 0], [C2c EXCEPT !.time = Bad],
               [C2c EXCEPT !.status = "cancelled"], [C2c EXCEPT !.fiat = ""] },
     spot |-> { Spot, [Spot EXCEPT !.side = "SELL", !.fee = <<1>>, !.feeAsset = "BNB"],
                [Spot EXCEPT !.fee = <<0>>, !.feeAsset = "BNB"], [Spot EXCEPT !.amount = <<>>],
                [Spot EXCEPT !.time.form = "inline"], [Spot EXCEPT !.side = "?"] },
     deposit |-> { Funding, [Funding EXCEPT !.status = "pending"], [Funding EXCEPT !.amount = <<0>>],
                   [Funding EXCEPT !.garbled = TRUE] },
     withdraw |-> { Funding, [Funding EXCEPT !.fee = <<1>>], [Funding EXCEPT !.time = Bad],
                    [Funding EXCEPT !.amount = <<>>] },
     unknown |-> { Spot },
     cash |-> { [Shakepay EXCEPT !.credit = <<2>>], [Shakepay EXCEPT !.debit = <<2>>], Shakepay,
                [Shakepay EXCEPT !.debit = <<1>>, !.type = "Card purchase"],
                [Shakepay EXCEPT !.time = Bad] },
     crypto |-> { [Credited EXCEPT !.type = "Reward"], [Credited EXCEPT !.type = "Receive"],
                  [Credited EXCEPT !.debit = <<3>>, !.debitAsset = "CAD"], Credited,
                  [Credited EXCEPT !.market = <<4>>, !.marketCur = "CAD"],
                  [Debited EXCEPT !.type = "Sell", !.book = <<5>>, !.bookCur = "CAD"],
                  [Debited EXCEPT !.type = "Send"], [Debited EXCEPT !.garbled = TRUE] },
     activity |-> { Trade, [Trade EXCEPT !.subtype = "SELL", !.net = <<5>>],
                    [Trade EXCEPT !.commission = <<>>, !.time = Bad, !.settled = At(2)],
                    [Trade EXCEPT !.net = << -1 >>], [Trade EXCEPT !.type = "dividend"],
                    [Trade EXCEPT !.account = "tfsa"], [Trade EXCEPT !.qty = <<>>],
                    [Trade EXCEPT !.time = Bad], [Trade EXCEPT !.qty = <<0>>] },
     transactions |-> { Viban, [Viban EXCEPT !.toAmount = <<>>], [Viban EXCEPT !.time = Bad],
                        [Viban EXCEPT !.kind = "viban_deposit", !.amount = <<3>>],
                        [Viban EXCEPT !.kind = "crypto_withdrawal"],
                        [Viban EXCEPT !.kind = "card_cashback"] },
     trades |-> { Pnl, [Pnl EXCEPT !.pnl = << -1 >>], [Pnl EXCEPT !.pnl = <<0>>],
                  [Pnl EXCEPT !.garbled = TRUE], [Pnl EXCEPT !.alias = ""] },
     structured |-> { Structured, [Structured EXCEPT !.in.amount = <<0>>],
                      [Structured EXCEPT !.in.amount = << -1 >>], [Structured EXCEPT !.in = Part("", <<>>)],
                      [Structured EXCEPT !.out = Part("USD", << -3 >>),
                                         !.charge = Side("USD", << -1 >>, "out")],
                      [Structured EXCEPT !.rebate = Side("USD", <<1>>, "in"),
                                         !.charge = Side("BNB", <<1>>, "")],
                      [Structured EXCEPT !.rebate = Side("USD", <<0>>, "in")],
                      [Structured EXCEPT !.charge = Side("USD", <<1>>, "out")],
                      [Structured EXCEPT !.charge = Side("USD", <<>>, "")],
                      [Structured EXCEPT !.rebate = Side("USD", <<1>>, "up")],
                      [Structured EXCEPT !.out = Part("BTC", <<1>>), !.in = Part("", <<>>)],
                      [Structured EXCEPT !.category = "gift"], [Structured EXCEPT !.time = Bad],
                      [Structured EXCEPT !.time = NoTime], [Structured EXCEPT !.garbled = TRUE] },
     base_transactions |-> { Near, [Near EXCEPT !.from = "me"], [Near EXCEPT !.from = "me", !.to = "x"],
                             [Near EXCEPT !.to = ""], [Near EXCEPT !.from = "y", !.to = "x"],
                             [Near EXCEPT !.method = "deposit_and_stake"], [Near EXCEPT !.time = Bad],
                             [Near EXCEPT !.amount = <<0>>], [Near EXCEPT !.method = "call"],
                             [Near EXCEPT !.garbled = TRUE] },
     receipts |-> { Near },
     operations |-> { Ledger, [Ledger EXCEPT !.type = "OUT", !.asset = "BTC"], [Ledger EXCEPT !.hash = 0],
                      [Ledger EXCEPT !.type = "FEES", !.amount = <<1>>],
                      [Ledger EXCEPT !.type = "DELEGATE", !.hash = 2, !.xpub = "y"],
                      [Ledger EXCEPT !.type = "OUT", !.amount = <<0>>],
                      [Ledger EXCEPT !.type = "REVEAL", !.xpub = ""], [Ledger EXCEPT !.time = Bad] },
     native_transfers |-> { Evm, [Evm EXCEPT !.from = "own", !.in = <<>>, !.out = <<1>>, !.to = "them"],
                            [Evm EXCEPT !.method = "swap", !.in = <<>>], [Evm EXCEPT !.hash = 2],
                            [Evm EXCEPT !.method = "swap", !.hash = 2], [Evm EXCEPT !.out = <<1>>],
                            [Evm EXCEPT !.hash = 0], [Evm EXCEPT !.garbled = TRUE] },
     token_transfers |-> { Token, [Token EXCEPT !.from = "me", !.to = "them", !.contract = ""],
                           [Token EXCEPT !.from = "own"], [Token EXCEPT !.hash = 2],
                           [Token EXCEPT !.amount = <<>>], [Token EXCEPT !.asset = "", !.hash = 2] },
     internal_transfers |-> { Evm },
     nft_transfers |-> { [Evm EXCEPT !.method = ""] @@ [suspicious |-> TRUE],
                         [Evm EXCEPT !.hash = 2] @@ [suspicious |-> FALSE] },
     explorer_export |-> { Raw, [Raw EXCEPT !.from = "me", !.to = "x", !.in = <<>>, !.out = <<1>>, !.hash = 2],
                           [Raw EXCEPT !.precise = FALSE, !.hash = 2], [Raw EXCEPT !.method = "stake"],
                           [Raw EXCEPT !.method = "stake", !.from = "me", !.in = <<>>, !.out = <<2>>],
                           [Raw EXCEPT !.method = "unstake"], [Raw EXCEPT !.method = "claimpendingrewards"],
                           [Raw EXCEPT !.method = "approve"], [Raw EXCEPT !.status = "failed"],
                           [Raw EXCEPT !.method = "restakerewards"],
                           [Raw EXCEPT !.method = "restakerewards", !.from = "me", !.to = "s",
                                       !.in = <<>>, !.out = <<2>>],
                           [Raw EXCEPT !.time = Bad], [Raw EXCEPT !.garbled = TRUE],
                           [Raw EXCEPT !.time = At(6), !.asset = "RON"] },
     action_summary |-> { Summary, [Summary EXCEPT !.amount = << -2 >>, !.from = "me", !.to = "x"],
                          [Summary EXCEPT !.hash = 2, !.time = At(4)],
                          [Summary EXCEPT !.action = "stakeaxs", !.from = "me", !.amount = << -1 >>, !.hash = 2],
                          [Summary EXCEPT !.action = "restakeaxs"],
                          [Summary EXCEPT !.action = "restakeaxs", !.from = "me", !.to = "s", !.amount = << -2 >>],
                          [Summary EXCEPT !.action = "mint"], [Summary EXCEPT !.amount = <<>>],
                          [Summary EXCEPT !.wallet = "own"] }]

MCOffset == << 0, 2, 2 >>
MCCutoff == <<2>>
=============================================================================
