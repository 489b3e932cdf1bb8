-------------------------- MODULE ChainTranslation --------------------------
(***************************************************************************)
(* Translation of the exports of wallets and chain explorers: Ledger Live, *)
(* NEAR, the EVM explorers and Ronin.  Unlike the platforms' rows, the     *)
(* rows of a chain transaction are spread over several lines and files, so *)
(* these translators read all files of the capture.                        *)
(*                                                                         *)
(* `files` maps a file (a number, in the order of the paths) to            *)
(* [family, name, rows]: name holds the addresses or the account its name  *)
(* carries.  Rows follow the conventions of PlatformTranslation; a hash is *)
(* a number, 0 where it is blank.                                          *)
(***************************************************************************)
EXTENDS PlatformTranslation, TLC

RowAt(files, at) == files[at[1]].rows[at[2]]

\* the rows of the files of a family, in the order of files and lines
RowRefs(files, families) ==
    SetToSortSeq(UNION { { << f, i >> : i \in DOMAIN files[f].rows }
                         : f \in { g \in DOMAIN files : files[g].family \in families } },
                 LAMBDA a, b : a[1] < b[1] \/ (a[1] = b[1] /\ a[2] < b[2]))

\* the outcomes of the members of a set whose order cannot be told
Together(outcomes) == InOrder(SetToSeq(outcomes))

AmountOr0(x) == IF x = None THEN 0 ELSE x[1]

-----------------------------------------------------------------------------
(* Ledger Live: the rows of one operation hash, over all files *)

\* operation type -> the sign of its amount, and whether a person is to look at it
SINGLE_TYPE_TRANSLATIONS ==
    "IN" :> [class |-> "chain_transfer_in", sign |-> 1, review |-> FALSE]
    @@ "OUT" :> [class |-> "asset_withdrawal", sign |-> -1, review |-> FALSE]
    @@ "FEES" :> [class |-> "cash_expense", sign |-> -1, review |-> FALSE]
    @@ "DELEGATE" :> [class |-> "staking_transfer_out", sign |-> -1, review |-> TRUE]

\* the rows of the group that are of a type
build_operation_group(files, group, type) ==
    SelectSeq(group, LAMBDA at : RowAt(files, at).type = type)

OperationTypes(files, group) == { RowAt(files, group[i]).type : i \in DOMAIN group }

ledger_charge_legs(amount, asset) ==
    IF amount <= 0 \/ asset = "" THEN <<>>
    ELSE << AttributedLeg("charge", "charge", - amount, asset, "network_fee", "primary_out") >>

swap_policy(amount, asset) ==
    IF amount > 0 /\ asset # "" THEN TWO_SIDED_WITH_CHARGE_POLICY
    ELSE TWO_SIDED_PRIMARY_EXCHANGE_POLICY

\* the file of the first row names the operation, whichever files the others come from
single_primary_draft(id, at, r) ==
    LET spec == SINGLE_TYPE_TRANSLATIONS[r.type]
    IN  IF r.amount = None \/ r.asset = "" THEN Issued("unsupported_group", {at})
        ELSE IF r.garbled THEN Raises("InvalidOperation")
        ELSE IF r.amount[1] <= 0 THEN Issued("unsupported_group", {at})
        ELSE IF r.time.form # "plain" THEN Raises("ValueError")
        ELSE Drafted(ActivityDraft(id, {at}, r.time.at, spec.class,
                << economic_leg("primary", "primary", spec.sign * r.amount[1], r.asset) >>,
                SINGLE_PRIMARY_ACTIVITY_POLICY))

delegate_review(o, at, r) ==
    IF o.drafts = {} \/ ~ SINGLE_TYPE_TRANSLATIONS[r.type].review THEN o
    ELSE [o EXCEPT !.reviews = {[kind |-> "staking_delegate_incomplete", rows |-> {at},
                                 field |-> "operation_type"]}]

translate_single_type_group(files, id, group) ==
    IF Len(group) # 1 THEN Issued("unsupported_group", Range(group))
    ELSE LET at == group[1]
         IN  delegate_review(single_primary_draft(id, at, RowAt(files, at)), at, RowAt(files, at))

\* one row in, one row out and at most one fee: an exchange, whatever the assets
SwapGroup(files, group) ==
    /\ OperationTypes(files, group) \in {{"IN", "OUT"}, {"IN", "OUT", "FEES"}}
    /\ \A t \in {"IN", "OUT"} : Len(build_operation_group(files, group, t)) = 1

translate_swap_group(files, id, group) ==
    LET in == RowAt(files, build_operation_group(files, group, "IN")[1])
        out == RowAt(files, build_operation_group(files, group, "OUT")[1])
        fees == build_operation_group(files, group, "FEES")
        fee == IF fees = <<>> THEN 0 ELSE AmountOr0(RowAt(files, fees[1]).amount)
        feeAsset == IF fees = <<>> THEN "" ELSE RowAt(files, fees[1]).asset
    IN  IF in.time.form # "plain" THEN Raises("ValueError")
        ELSE IF \E i \in DOMAIN group : RowAt(files, group[i]).garbled
        THEN Raises("InvalidOperation")
        ELSE Drafted(ActivityDraft(id, Range(group), in.time.at, "asset_swap",
                << In(AmountOr0(in.amount), in.asset), Out(AmountOr0(out.amount), out.asset) >>
                \o ledger_charge_legs(fee, feeAsset), swap_policy(fee, feeAsset)))

translate_operation_group(files, id, group) ==
    LET types == OperationTypes(files, group)
    IN  IF Len(build_operation_group(files, group, "FEES")) > 1
        THEN Issued("unsupported_group", Range(group))
        ELSE IF Cardinality(types) = 1 /\ types \subseteq DOMAIN SINGLE_TYPE_TRANSLATIONS
        THEN translate_single_type_group(files, id, group)
        ELSE IF SwapGroup(files, group) THEN translate_swap_group(files, id, group)
        ELSE Issued("unsupported_group", Range(group))

\* rows without a hash are passed over
translate_operations(files) ==
    LET rows == SelectSeq(RowRefs(files, {"operations"}), LAMBDA at : RowAt(files, at).hash # 0)
        group(h) == SelectSeq(rows, LAMBDA at : RowAt(files, at).hash = h)
    IN  Together({ translate_operation_group(files, << group(h)[1][1], h >>, group(h))
                   : h \in { RowAt(files, at).hash : at \in Range(rows) } })

\* an account under two identifiers, or no identifier at all, is reported
ledger_location_issues(files) ==
    LET known == { RowAt(files, at) : at \in
                   { x \in Range(RowRefs(files, {"operations"})) : RowAt(files, x).xpub # "" } }
    IN  { "account_identifier_conflict" :
          pair \in { p \in known \X known : p[1].account = p[2].account /\ p[1].xpub # p[2].xpub } }
        \cup (IF known = {} THEN {"missing_identifier"} ELSE {})

-----------------------------------------------------------------------------
(* NEAR: row by row, over the files that name their account *)

near_policy(fee) == IF fee <= 0 THEN SINGLE_PRIMARY_ACTIVITY_POLICY ELSE SINGLE_WITH_CHARGE_POLICY

near_charge_legs(fee, to) ==
    IF fee <= 0 THEN <<>>
    ELSE << AttributedLeg("charge", "charge", - fee, "NEAR", "network_fee", to) >>

\* an account that sends to itself receives; blank parties are taken for a receipt
near_transfer_draft(at, r, account) ==
    LET fee == AmountOr0(r.fee)
        draft(class, leg) ==
            Drafted(ActivityDraft(RowId(at), {at}, r.time.at, class,
                                  << leg >> \o near_charge_legs(fee, leg.id), near_policy(fee)))
    IN  IF r.to = account \/ (r.from # account /\ r.from = "" /\ r.to = "")
        THEN draft("chain_transfer_in", In(r.amount[1], "NEAR"))
        ELSE IF r.from = account THEN draft("asset_withdrawal", Out(r.amount[1], "NEAR"))
        ELSE Issued("unsupported_transfer_shape", {at})

\* a stake leaves the wallet and enters the account's staking location
near_stake_drafts(at, r) ==
    LET fee == AmountOr0(r.fee)
    IN  InOrder(<<
            Drafted(ActivityDraft(Append(RowId(at), "wallet"), {at}, r.time.at,
                "staking_transfer_out",
                << Out(r.amount[1], "NEAR") >> \o near_charge_legs(fee, "primary_out"),
                near_policy(fee))),
            Drafted(ActivityDraft(Append(RowId(at), "staking"), {at}, r.time.at,
                "staking_transfer_in", << In(r.amount[1], "NEAR") >>,
                SINGLE_PRIMARY_ACTIVITY_POLICY)) >>)

near_translate_row(at, r, account) ==
    IF r.garbled THEN Raises("InvalidOperation")
    ELSE IF r.time.form # "plain" THEN Issued("invalid_timestamp", {at})
    ELSE IF account = "" THEN Issued("missing_identifier", {at})
    ELSE IF ~ Paid(r.amount) THEN Issued("invalid_amount", {at})
    ELSE CASE r.method = "transfer" -> near_transfer_draft(at, r, account)
           [] r.method = "deposit_and_stake" -> near_stake_drafts(at, r)
           [] OTHER -> Issued("unsupported", {at})

near_file(files, f) ==
    IF files[f].family # "base_transactions"
    THEN Issued("unsupported_file_family", { << f, i >> : i \in DOMAIN files[f].rows })
    ELSE InOrder([i \in DOMAIN files[f].rows |->
                    near_translate_row(<< f, i >>, files[f].rows[i], files[f].name)])

near_translate_transactions(files) == Together({ near_file(files, f) : f \in DOMAIN files })

-----------------------------------------------------------------------------
(* EVM explorers: native and token transfers, traces and collectibles *)

\* addresses in file names; failing that, the only receiver of the first file that has just one
evm_owned_addresses(files) ==
    LET named == UNION { files[f].name : f \in DOMAIN files }
        receivers(f) == { r.to : r \in { x \in Range(files[f].rows) : x.to # "" } }
        single == { f \in DOMAIN files : Cardinality(receivers(f)) = 1 }
    IN  IF named # {} THEN named
        ELSE IF single = {} THEN {} ELSE receivers(Min(single))

blocked_nft_tx_hashes(files) ==
    { RowAt(files, at).hash : at \in Range(RowRefs(files, {"nft_transfers"})) } \ {0}

SIMPLE_METHODS == {"", "transfer"}

\* mutant: a call that moves no coin of its own is taken for harmless
unsupported_native_methods_moving(files) ==
    { RowAt(files, at).hash : at \in
        { x \in Range(RowRefs(files, {"native_transfers"})) :
            /\ RowAt(files, x).method \notin SIMPLE_METHODS
            /\ Paid(RowAt(files, x).in) \/ Paid(RowAt(files, x).out) } } \ {0}

unsupported_native_methods(files) ==
    { RowAt(files, at).hash : at \in
        { x \in Range(RowRefs(files, {"native_transfers"})) :
            RowAt(files, x).method \notin SIMPLE_METHODS } } \ {0}

evm_draft_transfer(at, r, qty, asset) ==
    Drafted(ActivityDraft(<< at[1], r.hash >>, {at}, r.time.at,
                          IF qty > 0 THEN "chain_transfer_in" ELSE "asset_withdrawal",
                          << economic_leg("primary", "primary", qty, asset) >>,
                          SINGLE_PRIMARY_ACTIVITY_POLICY))

\* a contract call that moves no coin, and a row of a collectible's transaction, are passed over
translate_native_row(at, r, context) ==
    LET in == AmountOr0(r.in)
        out == AmountOr0(r.out)
    IN  IF r.garbled THEN Raises("InvalidOperation")
        ELSE IF r.hash = 0 \/ r.time.form # "plain" THEN Issued("invalid_row", {at})
        ELSE IF r.hash \in context.blocked \/ (in <= 0 /\ out <= 0) THEN Nothing
        ELSE IF r.method \notin SIMPLE_METHODS THEN Issued("unsupported_method", {at})
        ELSE IF in > 0 /\ out = 0 /\ r.to \in context.owned
        THEN evm_draft_transfer(at, r, in, "ETH")
        ELSE IF out > 0 /\ in = 0 /\ r.from \in context.owned
        THEN evm_draft_transfer(at, r, - out, "ETH")
        ELSE Issued("unsupported_shape", {at})

token_identity_issue(o, at, r) ==
    IF r.contract # "" THEN o
    ELSE [o EXCEPT !.issues = {[kind |-> "instrument_identity_blocked", rows |-> {at}]}]

translate_token_row(at, r, context) ==
    LET to == r.to \in context.owned
        from == r.from \in context.owned
    IN  IF r.garbled THEN Raises("InvalidOperation")
        ELSE IF r.hash = 0 \/ r.time.form # "plain" \/ ~ Paid(r.amount) \/ r.asset = ""
        THEN Issued("invalid_row", {at})
        ELSE IF r.hash \in context.blocked THEN Nothing
        ELSE IF r.hash \in context.unsupported THEN Issued("unsupported_related_method", {at})
        ELSE IF to = from THEN Issued("unsupported_shape", {at})
        ELSE token_identity_issue(
                evm_draft_transfer(at, r, IF to THEN r.amount[1] ELSE - r.amount[1], r.asset), at, r)

\* an unexpected gift is for review, any other collectible is unsupported
nft_transfer_issue(at, r, context) ==
    Issued(IF r.suspicious /\ r.to \in context.owned THEN "review_required"
           ELSE "unsupported_nft_activity", {at})

evm_translate_transactions(files) ==
    LET context == [owned |-> evm_owned_addresses(files),
                    blocked |-> blocked_nft_tx_hashes(files),
                    unsupported |-> unsupported_native_methods(files)]
        row(at) == LET r == RowAt(files, at) IN
            CASE files[at[1]].family = "native_transfers" -> translate_native_row(at, r, context)
              [] files[at[1]].family = "token_transfers" -> translate_token_row(at, r, context)
              [] files[at[1]].family = "internal_transfers" ->
                    Issued("unsupported_internal_trace", {at})
              [] files[at[1]].family = "nft_transfers" -> nft_transfer_issue(at, r, context)
        refs == RowRefs(files, {"native_transfers", "token_transfers", "internal_transfers",
                                "nft_transfers"})
    IN  InOrder([i \in DOMAIN refs |-> row(refs[i])])

\* one address is expected: none, or several, is reported
address_location_issues(owned) ==
    IF owned = {} THEN {"missing_identifier"}
    ELSE IF Cardinality(owned) > 1 THEN {"multiple_primary_identifiers"} ELSE {}

-----------------------------------------------------------------------------
(* Ronin: the raw export is the authority, the action summary fills in *)

ronin_owned_addresses(files) ==
    UNION { files[f].name : f \in DOMAIN files }
    \cup ({ RowAt(files, at).wallet : at \in Range(RowRefs(files, {"action_summary"})) } \ {""})

\* a row that cannot be parsed is <<>>
parse_raw_row(r) ==
    IF r.hash = 0 \/ r.time.form # "plain" \/ r.asset = "" THEN None
    ELSE << [r EXCEPT !.in = << AmountOr0(@) >>, !.out = << AmountOr0(@) >>] >>

parse_summary_row(r) ==
    IF r.hash = 0 \/ r.time.form # "plain" \/ r.asset = "" \/ AmountOr0(r.amount) = 0 THEN None
    ELSE << r >>

\* mutant: the line counts, so a row exported twice counts twice
raw_signature_of_line(files, at) == << RowAt(files, at), at >>

\* two lines with this in common are one and the same row
raw_signature(files, at) == RowAt(files, at)

summary_signature(files, at) ==
    LET r == RowAt(files, at) IN << r.hash, r.action, r.asset, r.amount >>

\* the last line of every signature, by time
collect_raw_group(files, hash) ==
    LET refs == { at \in Range(RowRefs(files, {"explorer_export"})) :
                    parse_raw_row(RowAt(files, at)) # None /\ RowAt(files, at).hash = hash }
        later(a, b) == a[1] > b[1] \/ (a[1] = b[1] /\ a[2] > b[2])
        kept == { at \in refs : ~ \E b \in refs :
                    later(b, at) /\ raw_signature(files, b) = raw_signature(files, at) }
        t(at) == RowAt(files, at).time.at
    IN  SetToSortSeq(kept, LAMBDA a, b : t(a) < t(b) \/ (t(a) = t(b) /\ later(b, a)))

\* the first line of every signature in each file
collect_summary_group(files, hash) ==
    LET refs == { at \in Range(RowRefs(files, {"action_summary"})) :
                    parse_summary_row(RowAt(files, at)) # None /\ RowAt(files, at).hash = hash }
        kept == { at \in refs : ~ \E b \in refs :
                    b[1] = at[1] /\ b[2] < at[2]
                    /\ summary_signature(files, b) = summary_signature(files, at) }
        t(at) == RowAt(files, at).time.at
        before(a, b) == t(a) < t(b) \/ (t(a) = t(b) /\ (a[2] < b[2] \/ (a[2] = b[2] /\ a[1] < b[1])))
    IN  SetToSortSeq(kept, before)

InvalidRows(files) ==
    { [kind |-> "invalid_row", rows |-> {at}] : at \in
        { x \in Range(RowRefs(files, {"explorer_export"})) : parse_raw_row(RowAt(files, x)) = None }
        \cup { x \in Range(RowRefs(files, {"action_summary"})) :
                parse_summary_row(RowAt(files, x)) = None } }

HashesOf(files, family, Parse(_)) ==
    { RowAt(files, at).hash : at \in
        { x \in Range(RowRefs(files, {family})) : Parse(RowAt(files, x)) # None } }

\* how far the summary's clock is from UTC, at every transaction both exports hold
summary_time_calibrations(files) ==
    LET both == HashesOf(files, "explorer_export", parse_raw_row)
                \cap HashesOf(files, "action_summary", parse_summary_row)
        utc(h) == RowAt(files, collect_raw_group(files, h)[1]).time.at
    IN  UNION { { << RowAt(files, at).time.at, utc(h) - RowAt(files, at).time.at, h >>
                  : at \in Range(collect_summary_group(files, h)) } : h \in both }

\* mutant: without a calibration the summary's time is taken for UTC
infer_summary_utc_timestamp_anyhow(local, calibrations) ==
    LET nearest == { c \in calibrations : \A d \in calibrations :
                        Magnitude(c[1] - local) <= Magnitude(d[1] - local) }
    IN  << local + (IF nearest = {} THEN 0 ELSE (CHOOSE c \in nearest : TRUE)[2]) >>

\* mutant: whichever transaction is met first gives the offset
infer_summary_utc_timestamp_first(local, calibrations) ==
    IF calibrations = {} THEN None
    ELSE << local + (CHOOSE c \in calibrations : \A d \in calibrations : c[3] <= d[3])[2] >>

\* the offset of the nearest calibration: the first in time, then by hash, of those equally near
infer_summary_utc_timestamp(local, calibrations) ==
    LET far(c) == Magnitude(c[1] - local)
        nearest == { c \in calibrations : \A d \in calibrations : far(c) <= far(d) }
        first == { c \in nearest : \A d \in nearest : c[1] < d[1] \/ (c[1] = d[1] /\ c[3] <= d[3]) }
    IN  IF calibrations = {} THEN None ELSE << local + (CHOOSE c \in first : TRUE)[2] >>

\* the first fee of the group, if it is written precisely enough
resolve_fee(files, group) ==
    LET paying == SelectSeq(group, LAMBDA at : Paid(RowAt(files, at).fee))
        r == RowAt(files, paying[1])
    IN  IF paying = <<>> THEN [fee |-> 0, reviews |-> {}]
        ELSE IF r.precise THEN [fee |-> r.fee[1], reviews |-> {}]
        ELSE [fee |-> 0, reviews |-> {[kind |-> "insufficient_decimal_precision",
                                       rows |-> {paying[1]}, field |-> "TxnFee(RON)"]}]

supported_fee_reviews(o, fee) == IF o.drafts = {} THEN o ELSE [o EXCEPT !.reviews = fee.reviews]

ronin_policy(fee) == IF fee <= 0 THEN SINGLE_PRIMARY_ACTIVITY_POLICY ELSE SINGLE_WITH_CHARGE_POLICY

ronin_fee_legs(fee, to) ==
    IF fee <= 0 THEN <<>>
    ELSE << AttributedLeg("charge", "charge", - fee, "RON", "network_fee", to) >>

ronin_transfer_draft(files, at, class, qty, fee) ==
    LET r == RowAt(files, at)
        id == IF qty > 0 THEN "primary_in" ELSE "primary_out"
    IN  Drafted(ActivityDraft(<< at[1], r.hash >>, {at}, r.time.at, class,
                << economic_leg(id, "primary", qty, r.asset) >> \o ronin_fee_legs(fee, id),
                ronin_policy(fee)))

summary_transfer_draft(files, at, ts, class) ==
    LET r == RowAt(files, at)
    IN  Drafted(ActivityDraft(<< at[1], r.hash, at[2] >>, {at}, ts, class,
                << economic_leg(IF r.amount[1] > 0 THEN "primary_in" ELSE "primary_out", "primary",
                                r.amount[1], r.asset) >>, SINGLE_PRIMARY_ACTIVITY_POLICY))

\* one way only, and the owned address at the right end
Inbound(r, owned) == AmountOr0(r.in) > 0 /\ AmountOr0(r.out) = 0 /\ r.to \in owned
Outbound(r, owned) == AmountOr0(r.out) > 0 /\ AmountOr0(r.in) = 0 /\ r.from \in owned

simple_transfer_draft(files, at, owned, fee) ==
    LET r == RowAt(files, at)
    IN  IF Inbound(r, owned)
        THEN ronin_transfer_draft(files, at, "chain_transfer_in", r.in[1], fee)
        ELSE IF Outbound(r, owned)
        THEN ronin_transfer_draft(files, at, "asset_withdrawal", - r.out[1], fee)
        ELSE Issued("unsupported_shape", {at})

translate_stake_raw_row(files, at, owned, fee) ==
    LET r == RowAt(files, at)
    IN  IF r.from \in owned /\ Paid(r.out)
        THEN ronin_transfer_draft(files, at, "staking_transfer_out", - r.out[1], fee)
        ELSE Issued("unsupported_shape", {at})

translate_unstake_raw_row(files, at, owned, fee) ==
    LET r == RowAt(files, at)
    IN  IF r.to \in owned /\ Paid(r.in)
        THEN ronin_transfer_draft(files, at, "staking_transfer_in", r.in[1], fee)
        ELSE Issued("unsupported_shape", {at})

translate_reward_raw_row(files, at, owned, fee) ==
    LET r == RowAt(files, at)
    IN  IF r.to \in owned /\ Paid(r.in)
        THEN ronin_transfer_draft(files, at, "staking_reward", r.in[1], fee)
        ELSE Issued("unsupported_shape", {at})

translate_supported_raw_row(files, at, owned, fee) ==
    LET method == RowAt(files, at).method
    IN  CASE method = "transfer" -> simple_transfer_draft(files, at, owned, fee)
          [] method = "stake" -> translate_stake_raw_row(files, at, owned, fee)
          [] method = "unstake" -> translate_unstake_raw_row(files, at, owned, fee)
          [] method = "claimpendingrewards" -> translate_reward_raw_row(files, at, owned, fee)
          [] OTHER -> Issued("unsupported_method", {at})

translate_raw_row(files, at, owned, fee) ==
    IF RowAt(files, at).status # "success" THEN Issued("unsupported_status", {at})
    ELSE translate_supported_raw_row(files, at, owned, fee)

\* a reward and the stake it goes into, of one asset
raw_restake_pair_drafts(files, group, owned, fee) ==
    LET reward == SelectSeq(group, LAMBDA at : Inbound(RowAt(files, at), owned))
        stake == SelectSeq(group, LAMBDA at : Outbound(RowAt(files, at), owned))
        r == RowAt(files, reward[1])
        s == RowAt(files, stake[1])
    IN  IF Len(group) # 2 \/ reward = <<>> \/ stake = <<>> THEN Nothing
        ELSE IF r.asset # s.asset THEN Nothing
        ELSE InOrder(<< ronin_transfer_draft(files, reward[1], "staking_reward", r.in[1], 0),
                        ronin_transfer_draft(files, stake[1], "staking_transfer_out",
                                             - s.out[1], fee) >>)

translate_summary_transfer_row(files, at, ts, owned) ==
    LET r == RowAt(files, at)
    IN  IF r.amount[1] > 0 /\ r.to \in owned
        THEN summary_transfer_draft(files, at, ts, "chain_transfer_in")
        ELSE IF r.amount[1] < 0 /\ r.from \in owned
        THEN summary_transfer_draft(files, at, ts, "asset_withdrawal")
        ELSE Issued("unsupported_summary_group", {at})

translate_summary_stake_row(files, at, ts, owned) ==
    LET r == RowAt(files, at)
    IN  IF r.amount[1] < 0 /\ r.from \in owned
        THEN summary_transfer_draft(files, at, ts, "staking_transfer_out")
        ELSE Issued("unsupported_summary_group", {at})

is_supported_restake_pair(p, n, owned) ==
    p.asset = n.asset /\ p.amount[1] = - n.amount[1] /\ p.to \in owned /\ n.from \in owned

translate_summary_restake_rows(files, group, ts, owned) ==
    LET pos == SelectSeq(group, LAMBDA at : RowAt(files, at).amount[1] > 0)
        neg == SelectSeq(group, LAMBDA at : RowAt(files, at).amount[1] < 0)
        paired == /\ pos # <<>> /\ neg # <<>>
                  /\ is_supported_restake_pair(RowAt(files, pos[1]), RowAt(files, neg[1]), owned)
    IN  IF ~ paired THEN Issued("unsupported_summary_group", {group[1]})
        ELSE InOrder(<< summary_transfer_draft(files, pos[1], ts, "staking_reward"),
                        summary_transfer_draft(files, neg[1], ts, "staking_transfer_out") >>)

translate_supported_summary_group(files, group, ts, owned) ==
    LET action == RowAt(files, group[1]).action
    IN  CASE action = "transfer" /\ Len(group) = 1 ->
                translate_summary_transfer_row(files, group[1], ts, owned)
          [] action = "stakeaxs" /\ Len(group) = 1 ->
                translate_summary_stake_row(files, group[1], ts, owned)
          [] action = "restakeaxs" /\ Len(group) = 2 ->
                translate_summary_restake_rows(files, group, ts, owned)
          [] OTHER -> Issued("unsupported_summary_group", {group[1]})

\* override is the raw export's time, <<>> where there is none
translate_summary_group(files, group, owned, calibrations, override) ==
    LET local == RowAt(files, group[1]).time.at
        ts == IF override # None THEN override ELSE infer_summary_utc_timestamp(local, calibrations)
    IN  IF group = <<>> THEN Nothing
        ELSE IF \E i \in DOMAIN group : RowAt(files, group[i]).time.at # local
        THEN Issued("ambiguous_summary_timestamp", {group[1]})
        ELSE IF ts = None THEN Issued("summary_timestamp_unresolved", {group[1]})
        ELSE IF \E i \in DOMAIN group : RowAt(files, group[i]).action # RowAt(files, group[1]).action
        THEN Issued("ambiguous_summary_group", {group[1]})
        ELSE translate_supported_summary_group(files, group, ts[1], owned)

\* restaked rewards are read from the summary where it has them, from the raw pair otherwise
translate_raw_group(files, group, owned, summary) ==
    LET fee == resolve_fee(files, group)
        restake == translate_summary_group(files, summary, owned, {},
                                           << RowAt(files, group[1]).time.at >>)
        pair == raw_restake_pair_drafts(files, group, owned, fee.fee)
        method == RowAt(files, group[1]).method
    IN  IF \E i \in DOMAIN group : RowAt(files, group[i]).method # method
        THEN Issued("ambiguous_raw_group", {group[1]})
        ELSE IF method = "restakerewards"
        THEN IF restake.drafts # {} THEN supported_fee_reviews(restake, fee)
             ELSE IF pair.drafts # {} THEN supported_fee_reviews(pair, fee)
             ELSE Issued("unsupported_restake", {group[1]})
        ELSE IF Len(group) # 1 THEN Issued("unsupported_raw_group", {group[1]})
        ELSE supported_fee_reviews(translate_raw_row(files, group[1], owned, fee.fee), fee)

symbol_identity_issues(o) ==
    [o EXCEPT !.issues = @ \cup
        { [kind |-> "instrument_identity_blocked", rows |-> d.rows] : d \in
            { e \in o.drafts : \E i \in DOMAIN e.legs :
                e.legs[i].kind = "primary" /\ e.legs[i].asset # "RON" } }]

ronin_translate_transactions(files) ==
    LET owned == ronin_owned_addresses(files)
        raw == HashesOf(files, "explorer_export", parse_raw_row)
        summarised == HashesOf(files, "action_summary", parse_summary_row)
        group(h) ==
            IF h \in raw
            THEN translate_raw_group(files, collect_raw_group(files, h), owned,
                                     collect_summary_group(files, h))
            ELSE translate_summary_group(files, collect_summary_group(files, h), owned,
                                         summary_time_calibrations(files), None)
        all == Together({ group(h) : h \in raw \cup summarised })
    IN  IF \E at \in Range(RowRefs(files, {"explorer_export", "action_summary"})) :
            RowAt(files, at).garbled
        THEN Raises("InvalidOperation")
        ELSE symbol_identity_issues([all EXCEPT !.issues = @ \cup InvalidRows(files)])

\* a summary without a raw export leaves its clock unknown
ronin_validate_profile_timezones(files) ==
    IF \E f \in DOMAIN files : files[f].family = "explorer_export" THEN {}
    ELSE { f \in DOMAIN files : files[f].family = "action_summary" }
=============================================================================
