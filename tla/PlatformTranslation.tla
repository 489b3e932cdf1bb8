------------------------ MODULE PlatformTranslation ------------------------
(***************************************************************************)
(* Translation of the platforms' exports: Binance, Shakepay, Wealthsimple, *)
(* Crypto.com, gTrade and the structured CSV.  One operator per row or     *)
(* group translator, from the fields the code reads to drafts and issues.  *)
(*                                                                         *)
(* A blank amount is <<>>, a blank text "".  A time is a record [at, form]:*)
(* form "plain" is the platform's own format, "inline" carries an offset   *)
(* of its own, "bad" is blank or unreadable.  A row is garbled when an     *)
(* amount the translator parses is no number: parse_decimal raises         *)
(* InvalidOperation, which is no ValueError.                               *)
(***************************************************************************)
EXTENDS ActivityDrafts

CONSTANTS
    Offset,     \* file -> hours its name says its clock is ahead of UTC
    Cutoff      \* the project's baseline instant, <<>> if the profile has none

\* a primary leg alone or with one charge: the policies the adapters build for themselves
SINGLE_WITH_CHARGE_POLICY ==
    [primary |-> Limit(0..1, 0..1, 0..1), charge |-> Limit(0..1, {0}, 0..1)]

In(qty, asset) == economic_leg("primary_in", "primary", qty, asset)
Out(qty, asset) == economic_leg("primary_out", "primary", - qty, asset)
Paid(x) == x # None /\ x[1] > 0
RowId(at) == << at[1], "row", at[2] >>

-----------------------------------------------------------------------------
(* Binance: one translator per file *)

\* the instant of a row, <<>> where the code raises
parse_export_timestamp(time, f) ==
    CASE time.form = "plain" -> << time.at - Offset[f] >>
      [] time.form = "inline" -> << time.at >>
      [] OTHER -> None

\* the transaction history knows one format and no offset
parse_transaction_history_timestamp(time) == IF time.form = "plain" THEN << time.at >> ELSE None

\* a fee counts as soon as it is written, zero or not
spot_charge_legs(r, to) ==
    IF r.fee = None \/ r.feeAsset = "" THEN <<>>
    ELSE << AttributedLeg("charge", "charge", - r.fee[1], r.feeAsset, "trading_fee", to) >>

spot_trade_policy(r) ==
    IF r.fee # None /\ r.feeAsset # "" THEN TWO_SIDED_WITH_CHARGE_POLICY
    ELSE TWO_SIDED_PRIMARY_EXCHANGE_POLICY

normalize_spot_row(at, r) ==
    LET ts == parse_export_timestamp(r.time, at[1])
        draft(legs) == Drafted(ActivityDraft(RowId(at), {at}, ts[1], "spot_trade", legs,
                                             spot_trade_policy(r)))
    IN  IF r.garbled THEN Raises("InvalidOperation")
        ELSE IF ts = None THEN Raises("ValueError")
        ELSE IF r.executed = None \/ r.amount = None THEN Nothing
        ELSE CASE r.side = "SELL" ->
                    draft(<< Out(r.executed[1], r.base), In(r.amount[1], r.quote) >>
                          \o spot_charge_legs(r, "primary_in"))
               [] r.side = "BUY" ->
                    draft(<< In(r.executed[1], r.base), Out(r.amount[1], r.quote) >>
                          \o spot_charge_legs(r, "primary_out"))
               [] OTHER -> Nothing

normalize_deposit_row(at, r) ==
    LET ts == parse_export_timestamp(r.time, at[1])
    IN  IF r.status # "completed" THEN Nothing
        ELSE IF r.garbled THEN Raises("InvalidOperation")
        ELSE IF r.amount = None THEN Nothing
        ELSE IF ts = None THEN Raises("ValueError")
        ELSE Drafted(ActivityDraft(RowId(at), {at}, ts[1], "asset_deposit",
                                   << In(r.amount[1], r.coin) >>, SINGLE_PRIMARY_ACTIVITY_POLICY))

withdrawal_policy(fee) ==
    IF Paid(fee) THEN SINGLE_WITH_CHARGE_POLICY ELSE SINGLE_PRIMARY_ACTIVITY_POLICY

withdrawal_charge_legs(fee, coin) ==
    IF ~ Paid(fee) THEN <<>>
    ELSE << AttributedLeg("charge", "charge", - fee[1], coin, "network_fee", "primary_out") >>

normalize_withdraw_row(at, r) ==
    LET ts == parse_export_timestamp(r.time, at[1])
    IN  IF r.status # "completed" THEN Nothing
        ELSE IF r.garbled THEN Raises("InvalidOperation")
        ELSE IF r.amount = None THEN Nothing
        ELSE IF ts = None THEN Raises("ValueError")
        ELSE Drafted(ActivityDraft(RowId(at), {at}, ts[1], "asset_withdrawal",
                << Out(r.amount[1], r.coin) >> \o withdrawal_charge_legs(r.fee, r.coin),
                withdrawal_policy(r.fee)))

\* both sides of a conversion are there
ConvertOrder(r) ==
    r.buy # None /\ r.sell # None /\ r.buyAsset # "" /\ r.sellAsset # ""

normalize_convert_row(at, r) ==
    IF r.status # "successful" THEN Nothing
    ELSE IF r.garbled THEN Raises("InvalidOperation")
    ELSE IF ~ ConvertOrder(r) THEN Nothing
    ELSE IF parse_transaction_history_timestamp(r.time) = None THEN Raises("ValueError")
    ELSE Drafted(ActivityDraft(<< at[1], "convert", at[2] >>, {at},
                    parse_export_timestamp(r.time, at[1])[1], "asset_conversion",
                    << In(r.buy[1], r.buyAsset), Out(r.sell[1], r.sellAsset) >>,
                    TWO_SIDED_PRIMARY_EXCHANGE_POLICY))

C2cOrder(r) ==
    r.qty # None /\ r.price # None /\ r.asset # "" /\ r.fiat # ""

\* any order that is not a sale is a purchase; its number is its id
normalize_c2c_row(at, r) ==
    LET legs == IF r.side = "SELL" THEN << In(r.price[1], r.fiat), Out(r.qty[1], r.asset) >>
                ELSE << In(r.qty[1], r.asset), Out(r.price[1], r.fiat) >>
    IN  IF r.status # "completed" THEN Nothing
        ELSE IF r.garbled THEN Raises("InvalidOperation")
        ELSE IF ~ C2cOrder(r) THEN Nothing
        ELSE IF parse_transaction_history_timestamp(r.time) = None THEN Raises("ValueError")
        ELSE Drafted(ActivityDraft(
                << at[1], "c2c", IF r.order = 0 THEN at[2] ELSE r.order >>, {at},
                parse_export_timestamp(r.time, at[1])[1], "p2p_trade", legs,
                TWO_SIDED_PRIMARY_EXCHANGE_POLICY))

HISTORICAL_ONLY_IGNORED_OPERATIONS == {"Simple Earn Flexible Redemption", "P2P Trading"}

should_ignore_historical_operation(ts, op) ==
    /\ Cutoff # None /\ op \in HISTORICAL_ONLY_IGNORED_OPERATIONS
    /\ ts <= Cutoff[1]

row_change(r) == IF r.change = None \/ r.garbled THEN 0 ELSE r.change[1]

\* the reward of a group's first row
StakingReward(rows, at, ts) ==
    LET r == rows[at[2]]
    IN  IF r.garbled THEN Raises("InvalidOperation")
        ELSE IF ~ Paid(r.change) THEN Nothing
        ELSE Drafted(ActivityDraft(RowId(at), {at}, ts, "staking_reward",
                << In(r.change[1], r.coin) >>, SINGLE_PRIMARY_ACTIVITY_POLICY))

\* the first sold asset of the group against the first bought one
DustConversion(f, rows, group, ts) ==
    LET sold == SelectSeq(group, LAMBDA i : row_change(rows[i]) < 0)
        bought == SelectSeq(group, LAMBDA i : row_change(rows[i]) > 0)
        \* each side is looked for from the first row on; a garbled row on the way raises
        seen(side) == { i \in Range(group) : side = <<>> \/ i < Head(side) }
        neg == rows[Head(sold)]
        pos == rows[Head(bought)]
    IN  IF \E i \in seen(sold) \cup seen(bought) : rows[i].garbled
        THEN Raises("InvalidOperation")
        ELSE IF sold = <<>> \/ bought = <<>> THEN Nothing
        ELSE Drafted(ActivityDraft(<< f, "small_assets", neg.coin >>,
                { << f, Head(sold) >>, << f, Head(bought) >> }, ts, "asset_conversion",
                << In(row_change(pos), pos.coin), Out(Magnitude(row_change(neg)), neg.coin) >>,
                TWO_SIDED_PRIMARY_EXCHANGE_POLICY))

\* rows of one time, account and operation, in the order of the file
GroupOf(rows, key) ==
    SetToSortSeq({ i \in DOMAIN rows : << rows[i].time, rows[i].account, rows[i].op >> = key }, <)

\* what a group yields when no rule takes it
GroupIssueKind(op) == IF op = "Binance Convert" THEN "ambiguous_group" ELSE "unsupported_group"

translate_history_group(f, rows, key, matched) ==
    LET ts == parse_transaction_history_timestamp(key[1])
        op == key[3]
        group == GroupOf(rows, key)
    IN  IF ts = None THEN Raises("ValueError")
        ELSE IF should_ignore_historical_operation(ts[1], op) THEN Nothing
        ELSE CASE op = "ETH 2.0 Staking Rewards" -> StakingReward(rows, << f, group[1] >>, ts[1])
               [] op = "Small Assets Exchange BNB" /\ Len(group) >= 2 ->
                    DustConversion(f, rows, group, ts[1])
               [] op = "Binance Convert" /\ ts[1] \in matched.convert -> Nothing
               [] op = "P2P Trading" /\ ts[1] \in matched.p2p -> Nothing
               [] OTHER -> Issued(GroupIssueKind(op), { << f, group[i] >> : i \in DOMAIN group })

\* the unsupported groups of an operation share one issue
unsupported_group_issues(rows, issues) ==
    LET op(i) == rows[(CHOOSE at \in i.rows : TRUE)[2]].op
        unsupported == { i \in issues : i.kind = "unsupported_group" }
    IN  (issues \ unsupported)
        \cup { [kind |-> "unsupported_group",
                rows |-> UNION { i.rows : i \in { j \in unsupported : op(j) = o } }]
               : o \in { op(i) : i \in unsupported } }

is_no_data_row(r) == r.op = "No data matches the criteria."

\* the groups by time; an unreadable time is a blank one, which comes first
normalize_transaction_rows(f, rows, matched) ==
    LET data == { r \in Range(rows) : ~ is_no_data_row(r) }
        keys == SetToSortSeq({ << r.time, r.account, r.op >> : r \in data },
                             LAMBDA j, k : j[1].at < k[1].at)
        all == InOrder([i \in DOMAIN keys |-> translate_history_group(f, rows, keys[i], matched)])
    IN  [all EXCEPT !.issues = unsupported_group_issues(rows, @)]

\* mutant: no order among the files
BINANCE_FILE_TRANSLATION_RULES_unordered ==
    [spot |-> 20, deposit |-> 20, withdraw |-> 20, convert |-> 20, c2c |-> 20, history |-> 20]

\* the translator registered for a family, and whether its file comes before the others
BINANCE_FILE_TRANSLATION_RULES ==
    [spot |-> 20, deposit |-> 20, withdraw |-> 20, convert |-> 10, c2c |-> 10, history |-> 20]

EachRow(f, rows, Translate(_, _)) ==
    InOrder([i \in DOMAIN rows |-> Translate(<< f, i >>, rows[i])])

translate_binance_file(family, f, rows, matched) ==
    CASE family = "spot" -> EachRow(f, rows, normalize_spot_row)
      [] family = "deposit" -> EachRow(f, rows, normalize_deposit_row)
      [] family = "withdraw" -> EachRow(f, rows, normalize_withdraw_row)
      [] family = "convert" -> EachRow(f, rows, normalize_convert_row)
      [] family = "c2c" -> EachRow(f, rows, normalize_c2c_row)
      [] family = "history" -> normalize_transaction_rows(f, rows, matched)

\* times the order exports account for; only a file that was translated adds its own
OrderTimes(rows, status, Complete(_)) ==
    { r.time.at : r \in { x \in Range(rows) : x.status = status /\ Complete(x) } }

matched_times(family, rows, matched) ==
    CASE family = "convert" ->
            [matched EXCEPT !.convert = @ \cup OrderTimes(rows, "successful", ConvertOrder)]
      [] family = "c2c" -> [matched EXCEPT !.p2p = @ \cup OrderTimes(rows, "completed", C2cOrder)]
      [] OTHER -> matched

-----------------------------------------------------------------------------
(* Shakepay *)

CashDraft(at, ts, class, id, qty) ==
    Drafted(ActivityDraft(RowId(at), {at}, ts, class,
                          << economic_leg(id, "primary", qty, "CAD") >>,
                          SINGLE_PRIMARY_ACTIVITY_POLICY))

shakepay_cash_row(at, ts, r) ==
    CASE Paid(r.credit) -> CashDraft(at, ts, "fiat_deposit", "cash_in", r.credit[1])
      [] ~ Paid(r.credit) /\ ~ Paid(r.debit) -> Nothing
      [] OTHER -> CashDraft(at, ts, IF r.type = "Card purchase" THEN "cash_expense"
                                    ELSE "cash_withdrawal", "cash_out", - r.debit[1])

\* the row's worth: its market value, or what it cost
row_fiat_value(r) ==
    CASE r.market # None /\ r.marketCur # "" -> [amount |-> r.market, cur |-> r.marketCur]
      [] (r.market = None \/ r.marketCur = "") /\ r.book # None /\ r.bookCur # "" ->
            [amount |-> r.book, cur |-> r.bookCur]
      [] OTHER -> [amount |-> None, cur |-> ""]

shakepay_crypto_row(at, ts, r) ==
    LET fiat == row_fiat_value(r)
        credited == r.credit # None /\ r.creditAsset # ""
        debited == r.debit # None /\ r.debitAsset # ""
        price == IF r.debit # None THEN r.debit ELSE fiat.amount
        currency == IF r.debitAsset # "" THEN r.debitAsset ELSE fiat.cur
        leg(id, qty, asset) == economic_leg(id, "primary", qty, asset)
        one(class, l) == Drafted(ActivityDraft(RowId(at), {at}, ts, class, << l >>,
                                               SINGLE_PRIMARY_ACTIVITY_POLICY))
        trade(in, out) == Drafted(ActivityDraft(RowId(at), {at}, ts, "spot_trade",
                                << in, out >>, TWO_SIDED_PRIMARY_EXCHANGE_POLICY))
    IN  CASE r.type = "Reward" /\ credited ->
                one("platform_reward", leg("reward_in", r.credit[1], r.creditAsset))
          [] r.type = "Buy" /\ credited /\ price # None /\ currency # "" ->
                trade(leg("asset_in", r.credit[1], r.creditAsset),
                      leg("asset_out", - price[1], currency))
          [] r.type = "Sell" /\ debited /\ fiat.amount # None ->
                trade(leg("asset_in", fiat.amount[1], fiat.cur),
                      leg("asset_out", - r.debit[1], r.debitAsset))
          [] r.type = "Receive" /\ credited ->
                one("chain_transfer_in", leg("asset_in", r.credit[1], r.creditAsset))
          [] r.type = "Send" /\ debited ->
                one("asset_withdrawal", leg("asset_out", - r.debit[1], r.debitAsset))
          [] OTHER -> Issued("unsupported_row", {at})

shakepay_translate_row(family, at, r) ==
    IF r.time.form # "plain" THEN Issued("unsupported_row", {at})
    ELSE IF r.garbled THEN Raises("InvalidOperation")
    ELSE IF family = "cash" THEN shakepay_cash_row(at, r.time.at, r)
    ELSE shakepay_crypto_row(at, r.time.at, r)

-----------------------------------------------------------------------------
(* Wealthsimple *)

\* the net cash holds the commission; the trade's own cash does not
gross_cash_amount(net, commission, side) ==
    LET fee == IF Paid(commission) THEN commission[1] ELSE 0
        gross == IF side = "BUY" THEN Magnitude(net) - fee ELSE Magnitude(net) + fee
    IN  IF gross <= 0 THEN None ELSE << gross >>

wealthsimple_trade_policy(commission) ==
    IF Paid(commission) THEN TWO_SIDED_WITH_CHARGE_POLICY ELSE TWO_SIDED_PRIMARY_EXCHANGE_POLICY

wealthsimple_charge_legs(commission, currency, to) ==
    IF ~ Paid(commission) THEN <<>>
    ELSE << AttributedLeg("charge", "charge", - commission[1], currency, "commission", to) >>

trade_draft_or_issue(at, ts, r) ==
    LET cash == gross_cash_amount(r.net[1], r.commission, r.subtype)
        qty == Magnitude(r.qty[1])
        legs == IF r.subtype = "BUY" THEN << In(qty, r.symbol), Out(cash[1], r.currency) >>
                ELSE << Out(qty, r.symbol), In(cash[1], r.currency) >>
        to == IF r.subtype = "BUY" THEN "primary_out" ELSE "primary_in"
    IN  IF cash = None THEN Issued("unsupported_row", {at})
        ELSE Drafted(ActivityDraft(RowId(at), {at}, ts, "spot_trade",
                legs \o wealthsimple_charge_legs(r.commission, r.currency, to),
                wealthsimple_trade_policy(r.commission)))

\* rows of other accounts are none of this adapter's business
wealthsimple_normalize_row(at, r) ==
    LET time == IF r.time.form = "plain" THEN r.time ELSE r.settled
    IN  IF r.account # "crypto" THEN Nothing
        ELSE IF time.form # "plain" THEN Issued("unsupported_row", {at})
        ELSE IF r.garbled THEN Raises("InvalidOperation")
        ELSE IF r.qty = None \/ r.net = None THEN Issued("unsupported_row", {at})
        ELSE IF r.type = "trade" /\ r.subtype \in {"BUY", "SELL"}
        THEN trade_draft_or_issue(at, time.at, r)
        ELSE Issued("unsupported_row", {at})

-----------------------------------------------------------------------------
(* Crypto.com *)

crypto_com_normalize_row(at, r) ==
    LET draft(class, legs, policy) ==
            Drafted(ActivityDraft(RowId(at), {at}, r.time.at, class, legs, policy))
        paidOut == r.amount # None /\ r.amount[1] < 0
    IN  IF r.time.form # "plain" THEN Issued("unsupported_row", {at})
        ELSE IF r.garbled THEN Raises("InvalidOperation")
        ELSE CASE r.kind = "viban_deposit" /\ Paid(r.amount) ->
                    draft("fiat_deposit", << In(r.amount[1], r.currency) >>,
                          SINGLE_PRIMARY_ACTIVITY_POLICY)
               [] r.kind = "viban_purchase" /\ paidOut /\ r.toAmount # None ->
                    draft("spot_trade", << In(r.toAmount[1], r.toCurrency),
                                           Out(Magnitude(r.amount[1]), r.currency) >>,
                          TWO_SIDED_PRIMARY_EXCHANGE_POLICY)
               [] r.kind = "crypto_withdrawal" /\ paidOut ->
                    draft("asset_withdrawal", << Out(Magnitude(r.amount[1]), r.currency) >>,
                          SINGLE_PRIMARY_ACTIVITY_POLICY)
               [] OTHER -> Issued("unsupported_row", {at})

-----------------------------------------------------------------------------
(* gTrade: a realised profit or loss in DAI per row *)

classification_for_pnl(pnl) ==
    IF pnl > 0 THEN "derivative_realized_profit" ELSE "derivative_realized_loss"

gtrade_translate_row(at, r) ==
    IF r.garbled \/ r.pnl = None \/ r.pnl = << 0 >> \/ r.time.form # "plain"
    THEN Issued("unsupported_row", {at})
    ELSE Drafted(ActivityDraft(RowId(at), {at}, r.time.at, classification_for_pnl(r.pnl[1]),
            << IF r.pnl[1] > 0 THEN In(r.pnl[1], "DAI") ELSE Out(Magnitude(r.pnl[1]), "DAI") >>,
            SINGLE_PRIMARY_ACTIVITY_POLICY))

-----------------------------------------------------------------------------
(* Structured CSV *)

normalize_outbound_amount(x) == IF x = None THEN None ELSE << Magnitude(x[1]) >>

SignReviews(at, r) ==
    { [kind |-> "outbound_amount_sign_normalized", rows |-> {at}, field |-> f]
      : f \in { g \in {"out", "charge"} : r[g].amount # None /\ r[g].amount[1] < 0 } }

has(part) == part.asset # ""

policy_for_row(r) ==
    LET primary == IF has(r.in) /\ has(r.out) THEN Limit({2}, {1}, {1})
                   ELSE Limit({1}, 0..1, 0..1)
        loose == Limit(0..2, 0..1, 0..1)
        charge == Limit(0..1, {0}, 0..1)
        rebate == Limit(0..1, 0..1, {0})
    IN  CASE ~ has(r.charge) /\ ~ has(r.rebate) -> [primary |-> primary]
          [] has(r.charge) /\ ~ has(r.rebate) /\ has(r.in) /\ has(r.out) ->
                TWO_SIDED_WITH_CHARGE_POLICY
          [] has(r.charge) /\ ~ has(r.rebate) /\ ~ (has(r.in) /\ has(r.out)) ->
                [primary |-> loose, charge |-> charge]
          [] ~ has(r.charge) /\ has(r.rebate) -> [primary |-> loose, rebate |-> rebate]
          [] has(r.charge) /\ has(r.rebate) ->
                [primary |-> loose, charge |-> charge, rebate |-> rebate]

side_value(side) ==
    CASE side = "in" -> "primary_in" [] side = "out" -> "primary_out" [] OTHER -> "none"

StructuredLegs(r) ==
    LET leg(part, l) == IF has(part) /\ part.amount # None THEN << l >> ELSE <<>>
        out == normalize_outbound_amount(r.out.amount)
        charge == normalize_outbound_amount(r.charge.amount)
    IN  leg(r.in, In(r.in.amount[1], r.in.asset))
        \o leg(r.out, Out(out[1], r.out.asset))
        \o leg(r.charge, AttributedLeg("charge", "charge", - charge[1], r.charge.asset, "",
                                       side_value(r.charge.side)))
        \o leg(r.rebate, AttributedLeg("rebate", "rebate", r.rebate.amount[1], r.rebate.asset, "",
                                       side_value(r.rebate.side)))

StructuredCategories ==
    {"trade", "deposit", "withdrawal", "interest_income", "reward", "expense", "swap",
     "staking_reward", "derivatives_profit", "derivatives_loss"}

validate_required_text_fields(r) ==
    r.time.form # "blank" /\ r.category # "" /\ r.account # "" /\ r.wallet # ""

validate_amount_pairs(r) ==
    /\ \A p \in {r.in, r.out, r.charge, r.rebate} : has(p) <=> p.amount # None
    /\ \A p \in {r.charge, r.rebate} : p.side # "" => has(p)

validate_event_amount_presence(r) == has(r.in) \/ has(r.out)

validate_timestamp_field(r) == r.time.form = "plain"

\* the fault of the first amount that has one, "" if none has
validate_numeric_fields(r) ==
    LET amounts == << r.in, r.out, r.charge, r.rebate >>
        zero == { i \in 1..4 : amounts[i].amount = << 0 >> }
        negative == { i \in {1, 4} : amounts[i].amount # None /\ amounts[i].amount[1] < 0 }
    IN  CASE r.garbled -> "invalid_decimal"
          [] ~ r.garbled /\ zero \cup negative = {} -> ""
          [] OTHER -> IF Min(zero \cup negative) \in zero THEN "zero_amount"
                      ELSE "conflicting_amount_sign"

validate_side_fields(r) == \A p \in {r.charge, r.rebate} : p.side \in {"", "in", "out"}

validate_side_attribution_targets(r) ==
    \A p \in {r.charge, r.rebate} : has(p) =>
        /\ p.side = "in" => has(r.in)
        /\ p.side = "out" => has(r.out)

\* the first validator that objects, "" if none does
validate_row(r) ==
    IF ~ validate_required_text_fields(r) THEN "missing_required_field"
    ELSE IF ~ validate_amount_pairs(r) THEN "incomplete_amount_pair"
    ELSE IF ~ validate_event_amount_presence(r) THEN "missing_event_amount"
    ELSE IF ~ validate_timestamp_field(r) THEN "invalid_timestamp"
    ELSE IF validate_numeric_fields(r) # "" THEN validate_numeric_fields(r)
    ELSE IF ~ validate_side_fields(r) THEN "invalid_side_value"
    ELSE IF ~ validate_side_attribution_targets(r) THEN "invalid_side_attribution"
    ELSE ""

\* a category the table does not hold raises KeyError
structured_translate_row(at, r) ==
    IF r.category \notin StructuredCategories THEN Raises("KeyError")
    ELSE [Drafted(ActivityDraft(RowId(at), {at}, r.time.at, r.category, StructuredLegs(r),
                                policy_for_row(r)))
            EXCEPT !.reviews = SignReviews(at, r)]

dataset_reviews(o) ==
    IF o.drafts = {} THEN o
    ELSE [o EXCEPT !.reviews = @ \cup {[kind |-> "timestamp_timezone_assumed_utc", rows |-> {},
                                        field |-> ""]}]

issues_with_no_valid_rows(o) ==
    IF o.drafts # {} THEN o
    ELSE [o EXCEPT !.issues = @ \cup {[kind |-> "no_valid_rows", rows |-> {}]}]

structured_row(at, r) ==
    IF validate_row(r) = "" THEN structured_translate_row(at, r) ELSE Issued(validate_row(r), {at})

\* over all files of the capture
translate_structured_csv(files) ==
    issues_with_no_valid_rows(dataset_reviews(
        InOrder([f \in DOMAIN files |-> EachRow(f, files[f].rows, structured_row)])))
=============================================================================
