----------------------------- MODULE ClaimProducts -----------------------------
(***************************************************************************)
(* From the rows of the selected Coinbase exports to the published facts.  *)
(* The rows are translated into activity drafts and unsupported-row        *)
(* issues; the drafts and the selected statements' balance rows become the *)
(* claims of a claim set; the drafts are projected back from it (the       *)
(* bridge), filtered by the normalization window and compiled; economics,  *)
(* reconciliation and checkpoints are built from the claims; and the facts *)
(* and references of the products replace the bridge's.                    *)
(*                                                                         *)
(* A row is a record: id, type, ts (0 blank), asset ("" blank), cur,  *)
(* and qty, subtotal, total, fee, each <<>> (blank) or <<amount>>.  Ids    *)
(* that the code joins from texts are tuples, so they are as distinct as   *)
(* the texts are.  A handler that raises ends the command: "raised".       *)
(***************************************************************************)
EXTENDS ActivityDrafts, TLC

CONSTANTS
    Rows,           \* rows a retail export may hold
    Members,        \* selected export members of the evidence set
    FileName,       \* member -> base name of its file
    Preamble,       \* member -> lines above the header
    Nested,         \* members whose file lies in a folder of the capture
    Balances,       \* balance rows the selected statements may hold
    Windows,        \* normalization windows, [start, end], 0 where open
    MaxRows, MaxBalances

ASSUME MembersAssumption ==
    /\ Members \subseteq Nat /\ IsFiniteSet(Members)
    /\ FileName \in [Members -> Nat] /\ Preamble \in [Members -> Nat]
    /\ Nested \subseteq Members /\ MaxRows \in Nat /\ MaxBalances \in Nat

VARIABLES
    exports,     \* member -> its rows
    balances,    \* the selected statements' balance rows
    window,      \* the window the command was given, open until Publish looks at it
    stage,       \* where the command stands
    batch,       \* translated drafts and issues
    claimSet,    \* the persisted claim set and its sidecars
    projected,   \* drafts and issues projected back from the claim set
    economics,   \* economic events with their legs
    states,      \* reconciliation states
    checkpoints, \* checkpoint assertions, in order
    published    \* what the normalized output holds

vars == <<exports, balances, window, stage, batch, claimSet, projected, economics,
          states, checkpoints, published>>

ById(I) == SetToSortSeq(I, <)
SumLegs(legs, Test(_)) == FoldLeft(LAMBDA acc, l : IF Test(l) THEN acc + l.qty ELSE acc, 0, legs)

-----------------------------------------------------------------------------
(* Translation of a retail export *)

FeePaid(r) == r.fee # None /\ r.fee[1] > 0

retail_cash_amount(r) ==
    LET net == IF r.type = "buy" THEN r.total[1] - r.fee[1] ELSE r.total[1] + r.fee[1]
    IN  CASE r.subtotal # None -> r.subtotal
          [] r.subtotal = None /\ r.total = None -> None
          [] r.subtotal = None /\ r.total # None /\ ~ FeePaid(r) -> r.total
          [] OTHER -> IF net > 0 THEN <<net>> ELSE None

charge_legs(r, to) ==
    IF ~ FeePaid(r) \/ r.cur = "" THEN <<>>
    ELSE << [economic_leg("fee", "charge", - r.fee[1], r.cur)
                EXCEPT !.attr = to, !.sub = "trading_fee"] >>

\* the legs of a supported row, none where the row is not supported
RetailLegs(r) ==
    LET cash == retail_cash_amount(r)
        q == r.qty[1]
    IN  CASE r.qty = None -> <<>>
          [] r.qty # None /\ r.type = "buy" /\ cash # None ->
                << economic_leg("primary_in", "primary", q, r.asset),
                   economic_leg("primary_out", "primary", - cash[1], r.cur) >>
                \o charge_legs(r, "primary_out")
          [] r.qty # None /\ r.type = "sell" /\ cash # None ->
                << economic_leg("primary_in", "primary", cash[1], r.cur),
                   economic_leg("primary_out", "primary", - q, r.asset) >>
                \o charge_legs(r, "primary_in")
          [] r.qty # None /\ r.type = "reward income" ->
                << economic_leg("primary_in", "primary", Magnitude(q), r.asset) >>
          [] r.qty # None /\ r.type \in {"receive", "deposit"} ->
                << economic_leg("primary_in", "primary", q, r.asset) >>
          [] r.qty # None /\ r.type \in {"send", "withdrawal", "withdraw"} ->
                << economic_leg("primary_out", "primary", - Magnitude(q), r.asset) >>
          [] OTHER -> <<>>

classification_for_type(type) ==
    CASE type \in {"buy", "sell"} -> "spot_trade"
      [] type = "reward income" -> "interest_income"
      [] type \in {"receive", "deposit"} -> "asset_deposit"
      [] type = "asset_migration" -> "asset_migration"
      [] OTHER -> "asset_withdrawal"

leg_policy_for_activity(label) ==
    CASE label \in {"buy", "sell"} -> TWO_SIDED_WITH_CHARGE_POLICY
      [] label = "asset_migration" -> TWO_SIDED_PRIMARY_EXCHANGE_POLICY
      [] OTHER -> SINGLE_PRIMARY_ACTIVITY_POLICY

Draft(file, ref, ts, op, legs) ==
    [id |-> <<"coinbase">> \o ref, file |-> file, ref |-> ref, ts |-> ts, op |-> op,
     class |-> classification_for_type(op), legs |-> legs,
     policy |-> leg_policy_for_activity(op), location |-> "root"]

\* symbol_claim raises ValueError on a blank symbol
Named(legs) == \A i \in DOMAIN legs : legs[i].asset # ""

\* a draft, or nothing where the code raises ValueError
normalize_retail_row(file, r) ==
    IF \/ r.ts = 0 \/ ~ Named(RetailLegs(r))
       \/ ~ ValidDraft(RetailLegs(r), leg_policy_for_activity(r.type)) THEN <<>>
    ELSE << Draft(file, <<"id", r.id>>, r.ts, r.type, RetailLegs(r)) >>

MigrationRows(rows, ts) == SelectSeq(rows, LAMBDA r : r.type = "asset migration" /\ r.ts = ts)

Signed(rs, Sign(_)) == SelectSeq(rs, LAMBDA r : r.qty # None /\ Sign(r.qty[1]))

Pair(file, ts, sold, bought) ==
    LET legs == << economic_leg("asset_in", "primary", bought.qty[1], bought.asset),
                   economic_leg("asset_out", "primary", sold.qty[1], sold.asset) >>
    IN  IF ~ Named(legs) THEN <<>>
        ELSE << Draft(file, <<"pair", sold.id, bought.id>>, ts, "asset_migration", legs) >>

\* mutant: whatever else happened at that instant is left aside
normalize_asset_migration_of_many(file, ts, rs) ==
    LET negatives == Signed(rs, LAMBDA n : n < 0)
        positives == Signed(rs, LAMBDA n : n > 0)
    IN  IF negatives = <<>> \/ positives = <<>> \/ ts = 0 THEN <<>>
        ELSE Pair(file, ts, negatives[1], positives[1])

normalize_asset_migration(file, ts, rs) ==
    LET negatives == Signed(rs, LAMBDA n : n < 0)
        positives == Signed(rs, LAMBDA n : n > 0)
    IN  IF Len(rs) # 2 \/ Len(negatives) # 1 \/ Len(positives) # 1 \/ ts = 0 THEN <<>>
        ELSE Pair(file, ts, negatives[1], positives[1])

\* the header stands below the preamble; rows are numbered as lines of the file
RowIndex(m, i) == Preamble[m] + i + 1

Issue(file, ref) == [file |-> file, ref |-> ref]

translate_retail_file(m, rows) ==
    LET file == FileName[m]
        plain == { i \in DOMAIN rows : rows[i].type # "asset migration" }
        times == ById({ rows[i].ts : i \in DOMAIN rows \ plain })
        drafted(i) == normalize_retail_row(file, rows[i])
        paired(t) == normalize_asset_migration(file, t, MigrationRows(rows, t))
    IN  [drafts |-> FlattenSeq([i \in DOMAIN rows |-> IF i \in plain THEN drafted(i) ELSE <<>>])
                    \o FlattenSeq([k \in DOMAIN times |-> paired(times[k])]),
         issues |-> FlattenSeq([i \in DOMAIN rows |->
                        IF i \in plain /\ drafted(i) = <<>>
                        THEN << Issue(file, <<"row", RowIndex(m, i)>>) >> ELSE <<>>])
                    \o FlattenSeq([k \in DOMAIN times |->
                        IF paired(times[k]) = <<>> THEN << Issue(file, <<"at", times[k]>>) >>
                        ELSE <<>>])]

\* the selected exports one after the other
translate_selected_inputs(ex) ==
    LET ms == ById(DOMAIN ex)
        one(k) == translate_retail_file(ms[k], ex[ms[k]])
    IN  [drafts |-> FlattenSeq([k \in DOMAIN ms |-> one(k).drafts]),
         issues |-> FlattenSeq([k \in DOMAIN ms |-> one(k).issues])]

-----------------------------------------------------------------------------
(* The claim set *)

\* one file name belongs to one selected member, or the builder raises
NamesClash(ex) == \E m, n \in DOMAIN ex : m # n /\ FileName[m] = FileName[n]
MemberOf(ex, file) == CHOOSE m \in DOMAIN ex : FileName[m] = file

claim_scope_id(member, ref) == <<member, ref>>

\* the assets a draft names, each once, in the order of its legs
InstrumentSlots(legs) ==
    FoldLeft(LAMBDA acc, l : IF Contains(acc, l.asset) THEN acc ELSE Append(acc, l.asset),
             <<>>, legs)

activity_label(op) == IF op = "reward income" THEN "reward_income" ELSE op

\* mutant: slots counted from one on this side and from zero on the other
attributed_slot_from_zero(to, legs) ==
    IF to = "none" THEN 0
    ELSE LET J == { j \in DOMAIN legs : legs[j].id = to } IN IF J = {} THEN 0 ELSE Max(J) - 1

attributed_slot(to, legs) ==
    IF to = "none" THEN 0
    ELSE LET J == { j \in DOMAIN legs : legs[j].id = to } IN IF J = {} THEN 0 ELSE Max(J)

ActivityClaim(scope, d) ==
    [bundle |-> scope, kind |-> "activity", effective |-> d.ts, label |-> activity_label(d.op),
     legs |-> [i \in DOMAIN d.legs |->
        [role |-> d.legs[i].id, qty |-> d.legs[i].qty, sub |-> d.legs[i].sub,
         instrument |-> CHOOSE s \in DOMAIN InstrumentSlots(d.legs) :
                            InstrumentSlots(d.legs)[s] = d.legs[i].asset,
         attr |-> attributed_slot(d.legs[i].attr, d.legs)]]]

InstrumentClaim(scope, slot, asset) ==
    [bundle |-> scope, kind |-> "instrument", effective |-> 0, slot |-> slot, value |-> asset]

LocationClaim(scope, location) ==
    [bundle |-> scope, kind |-> "location", effective |-> 0, value |-> location]

OwnerClaim(scope) == [bundle |-> scope, kind |-> "beneficial_owner", effective |-> 0]

claims_for_draft(scope, d) ==
    LET slots == InstrumentSlots(d.legs)
    IN  << ActivityClaim(scope, d), OwnerClaim(scope) >>
        \o [s \in DOMAIN slots |-> InstrumentClaim(scope, s, slots[s])]
        \o << LocationClaim(scope, d.location) >>

\* an instrument claim must name something; of the rows that became drafts all do
validate_kind_fields(cs) ==
    \A i \in DOMAIN cs : cs[i].kind = "instrument" => cs[i].value # ""

Decision(scope, outcome) == [scope |-> scope, outcome |-> outcome]

\* a statement that names a wallet or an account of its own speaks of a place of its own
statement_location_ref(b) ==
    CASE b.wallet # "" /\ b.wallet # "coinbase" -> b.wallet
      [] b.wallet \in {"", "coinbase"} /\ b.account \notin {"", "coinbase"} -> b.account
      [] OTHER -> "root"

statement_scope_claims(b) ==
    LET scope == claim_scope_id(b.member, <<"statement", b.row>>)
    IN  << [bundle |-> scope, kind |-> "balance", effective |-> b.asof, qty |-> b.qty,
            observation |-> scope],
           OwnerClaim(scope), InstrumentClaim(scope, 1, b.asset),
           LocationClaim(scope, statement_location_ref(b)) >>

\* the statements' rows, by member and row as their bundle ids sort
OrderedBalances(bs) ==
    SetToSortSeq(bs, LAMBDA a, b : a.member < b.member \/ (a.member = b.member /\ a.row < b.row))

map_claim_issue_to_scope(ex, i) == Decision(claim_scope_id(MemberOf(ex, i.file), i.ref), "blocked")

\* an issue without a row reference (migration rows whose instant is blank) has no scope
Scoped(i) == i.ref # <<"at", 0>>

build_coinbase_claim_set(ex, bs, b) ==
    LET scope(d) == claim_scope_id(MemberOf(ex, d.file), d.ref)
        rows == OrderedBalances(bs)
        scoped == SelectSeq(b.issues, Scoped)
    IN  [claims |-> FlattenSeq([i \in DOMAIN b.drafts |->
                        claims_for_draft(scope(b.drafts[i]), b.drafts[i])])
                    \o FlattenSeq([k \in DOMAIN rows |-> statement_scope_claims(rows[k])]),
         decisions |-> [i \in DOMAIN b.drafts |-> Decision(scope(b.drafts[i]), "accepted")]
                       \o [k \in DOMAIN rows |->
                            Decision(claim_scope_id(rows[k].member, <<"statement", rows[k].row>>),
                                     "accepted")]
                       \o [i \in DOMAIN scoped |-> map_claim_issue_to_scope(ex, scoped[i])],
         fields |-> [i \in DOMAIN b.drafts |->
                        [bundle |-> scope(b.drafts[i]), class |-> b.drafts[i].class]],
         issues |-> scoped]

\* the claims of a kind in a bundle, in the canonical order
BundleClaims(cs, bundle, kind) ==
    LET I == { i \in DOMAIN cs : cs[i].bundle = bundle /\ cs[i].kind = kind }
        order == SetToSortSeq(I, LAMBDA i, j : cs[i].effective < cs[j].effective
                                    \/ (cs[i].effective = cs[j].effective /\ i < j))
    IN  [k \in DOMAIN order |-> cs[order[k]]]

-----------------------------------------------------------------------------
(* The bridge: drafts projected back from the claim set *)

provider_operation_key(label) == IF label = "reward_income" THEN "reward income" ELSE label

\* the last claim of a slot, as a dictionary keeps it
InstrumentOf(cs, bundle, slot) ==
    LET found == SelectSeq(BundleClaims(cs, bundle, "instrument"), LAMBDA c : c.slot = slot)
    IN  Last(found).value

AttributedRole(a, spec) == IF spec.attr = 0 THEN "none" ELSE a.legs[spec.attr].role

ProjectedLeg(cs, a, spec) ==
    [id |-> spec.role, kind |-> IF spec.role = "fee" THEN "charge" ELSE "primary",
     qty |-> spec.qty, asset |-> InstrumentOf(cs, a.bundle, spec.instrument),
     sub |-> spec.sub, attr |-> AttributedRole(a, spec)]

draft_from_projection_record(set, f) ==
    LET a == Head(BundleClaims(set.claims, f.bundle, "activity"))
    IN  [id |-> <<"coinbase">> \o f.bundle[2], file |-> FileName[f.bundle[1]],
         ref |-> f.bundle[2], ts |-> a.effective, op |-> provider_operation_key(a.label),
         class |-> f.class, policy |-> leg_policy_for_activity(a.label),
         legs |-> [i \in DOMAIN a.legs |-> ProjectedLeg(set.claims, a, a.legs[i])],
         location |-> Head(BundleClaims(set.claims, f.bundle, "location")).value]

project_translation_batch_from_claim_set(set) ==
    [drafts |-> [i \in DOMAIN set.fields |-> draft_from_projection_record(set, set.fields[i])],
     issues |-> set.issues]

-----------------------------------------------------------------------------
(* The normalization window *)

InWindow(t, w) == (w.start = 0 \/ w.start <= t) /\ (w.end = 0 \/ t <= w.end)
OpenWindow == [start |-> 0, end |-> 0]
Unbounded(w) == w = OpenWindow

filter_drafts_by_window(drafts, w) == SelectSeq(drafts, LAMBDA d : InWindow(d.ts, w))

\* The instant an issue is placed at, 0 where none is found.  The file is looked up by
\* its base name among paths; the row is taken as if the header were the first line.
ResolveContext(ex, i) ==
    LET m == MemberOf(ex, i.file)
        k == i.ref[2] - 1
    IN  CASE i.ref[1] = "at" -> IF m \in Nested THEN 0 ELSE i.ref[2]
          [] i.ref[1] = "row" /\ m \notin Nested /\ k \in DOMAIN ex[m] -> ex[m][k].ts
          [] OTHER -> 0

\* an issue of a row that could not be placed is left out when a window is set
filter_issues_by_window(ex, issues, w) ==
    IF Unbounded(w) THEN issues
    ELSE SelectSeq(issues, LAMBDA i : LET t == ResolveContext(ex, i)
                                      IN  t # 0 /\ InWindow(t, w))

\* every leg carries one identity claim, which always resolves
compile_activity_draft(d) ==
    [id |-> d.id, ts |-> d.ts, op |-> d.op, class |-> d.class, legs |-> d.legs,
     location |-> d.location, ref |-> d.ref, file |-> d.file]

compile_activity_drafts(drafts) ==
    [i \in DOMAIN drafts |-> compile_activity_draft(drafts[i])]

-----------------------------------------------------------------------------
(* Economics *)

FiatSymbols == {"cad", "usd"}

instrument_kind_for_symbol(asset) == IF asset \in FiatSymbols THEN "fiat" ELSE "crypto"

event_kind(label) ==
    CASE label = "reward_income" -> "fee_or_rebate"
      [] label = "asset_migration" -> "correction"
      [] label \in {"buy", "sell", "receive", "send"} -> "asset_movement"
      [] OTHER -> "unsupported"

role_for_leg(label, spec, asset) ==
    LET fee == spec.role = "fee" /\ spec.qty < 0
        rebate == label = "reward_income" /\ spec.qty > 0
    IN  CASE fee -> "fee"
          [] ~ fee /\ rebate -> "rebate"
          [] ~ fee /\ ~ rebate /\ instrument_kind_for_symbol(asset) = "fiat" -> "cash_change"
          [] OTHER -> "holding_change"

\* mutant: a bundle that holds two activities is taken for its first
accepted_activity_bundles_first(set) ==
    LET accepted == SelectSeq(set.decisions, LAMBDA d : d.outcome = "accepted"
                        /\ BundleClaims(set.claims, d.scope, "activity") # <<>>)
    IN  [raised |-> FALSE, scopes |-> [i \in DOMAIN accepted |-> accepted[i].scope]]

accepted_activity_bundles(set) ==
    LET accepted == SelectSeq(set.decisions, LAMBDA d : d.outcome = "accepted"
                        /\ BundleClaims(set.claims, d.scope, "activity") # <<>>)
    IN  [raised |-> \E i \in DOMAIN accepted :
                        Len(BundleClaims(set.claims, accepted[i].scope, "activity")) # 1,
         scopes |-> [i \in DOMAIN accepted |-> accepted[i].scope]]

SubjectRef(location, asset) == <<location, asset>>

event_and_legs_for_bundle(set, scope) ==
    LET a == Head(BundleClaims(set.claims, scope, "activity"))
        place == Head(BundleClaims(set.claims, scope, "location")).value
        asset(spec) == InstrumentOf(set.claims, scope, spec.instrument)
    IN  [bundle |-> scope, kind |-> event_kind(a.label), effective |-> a.effective,
         legs |-> [i \in DOMAIN a.legs |->
            [slot |-> i, role |-> role_for_leg(a.label, a.legs[i], asset(a.legs[i])),
             subject |-> SubjectRef(place, asset(a.legs[i])), qty |-> a.legs[i].qty]]]

\* the whole product is refused when one bundle is
build_economic_facts(set) ==
    LET bundles == accepted_activity_bundles(set)
        events == [i \in DOMAIN bundles.scopes |->
                    event_and_legs_for_bundle(set, bundles.scopes[i])]
    IN  [raised |-> bundles.raised \/ (\E i \in DOMAIN events : events[i].kind = "unsupported"),
         events |-> events]

leg_kind(role) == IF role = "fee" THEN "charge" ELSE "primary"

compatibility_leg(set, a, leg) ==
    LET spec == a.legs[leg.slot]
    IN  [id |-> spec.role, kind |-> leg_kind(leg.role), qty |-> leg.qty,
         asset |-> InstrumentOf(set.claims, a.bundle, spec.instrument), sub |-> spec.sub,
         attr |-> AttributedRole(a, spec)]

\* events in the order of their drafts, each with its claims and its sidecar fields
project_facts_from_economic_facts(set, eco) ==
    LET order(e) == Max({ i \in DOMAIN set.fields : set.fields[i].bundle = e.bundle })
        sorted == SortSeq(eco.events, LAMBDA d, e : order(d) < order(e))
        fact(e) ==
            LET a == Head(BundleClaims(set.claims, e.bundle, "activity"))
            IN  [id |-> <<"coinbase">> \o e.bundle[2], ts |-> e.effective,
                 op |-> provider_operation_key(a.label), class |-> set.fields[order(e)].class,
                 legs |-> [i \in DOMAIN e.legs |-> compatibility_leg(set, a, e.legs[i])],
                 location |-> Head(BundleClaims(set.claims, e.bundle, "location")).value,
                 ref |-> e.bundle[2], file |-> FileName[e.bundle[1]]]
    IN  [i \in DOMAIN sorted |-> fact(sorted[i])]

-----------------------------------------------------------------------------
(* Reconciliation *)

accepted_balance_claims(set) ==
    SelectSeq(set.claims, LAMBDA c : c.kind = "balance" /\ \E i \in DOMAIN set.decisions :
        set.decisions[i] = Decision(c.bundle, "accepted"))

subject_ref_for_balance_claim(set, c) ==
    SubjectRef(Head(BundleClaims(set.claims, c.bundle, "location")).value,
               InstrumentOf(set.claims, c.bundle, 1))

\* the legs of a subject with the instant of their event
TimedLegs(eco, subject) ==
    FlattenSeq([i \in DOMAIN eco.events |->
        LET legs == SelectSeq(eco.events[i].legs, LAMBDA l : l.subject = subject)
        IN  [k \in DOMAIN legs |-> [ts |-> eco.events[i].effective, qty |-> legs[k].qty]]])

expected_quantity(legs, asof) == SumLegs(legs, LAMBDA l : l.ts <= asof)

segment_bounds(legs, claims) ==
    LET times == { legs[i].ts : i \in DOMAIN legs } \cup { claims[i].effective : i \in DOMAIN claims }
    IN  <<Min(times), Max(times)>>

proposal_status(t) ==
    IF t.outcome = "matched" THEN IF t.evidence # {} THEN "ready" ELSE "partial" ELSE "blocked"

\* every claim of the set cites its own observation, which the evidence set holds
BalanceTarget(legs, c) ==
    LET expected == expected_quantity(legs, c.effective)
    IN  [asof |-> c.effective, expected |-> expected, observed |-> c.qty,
         outcome |-> IF c.qty = expected THEN "matched" ELSE "mismatched",
         evidence |-> {c.observation}]

state_for_subject(subject, legs, claims) ==
    LET sorted == SortSeq(claims, LAMBDA a, b : a.effective < b.effective)
        targets == [i \in DOMAIN sorted |-> BalanceTarget(legs, sorted[i])]
    IN  [subject |-> subject, bounds |-> segment_bounds(legs, claims),
         status |-> IF claims = <<>> THEN "partial" ELSE "complete", targets |-> targets,
         proposals |-> [i \in DOMAIN targets |->
            [asof |-> targets[i].asof, status |-> proposal_status(targets[i])]]]

build_reconciliation_states(set, eco) ==
    LET claims == accepted_balance_claims(set)
        subjects ==
            UNION { { eco.events[i].legs[k].subject : k \in DOMAIN eco.events[i].legs } :
                        i \in DOMAIN eco.events }
            \cup { subject_ref_for_balance_claim(set, claims[i]) : i \in DOMAIN claims }
    IN  { state_for_subject(s, TimedLegs(eco, s),
                SelectSeq(claims, LAMBDA c : subject_ref_for_balance_claim(set, c) = s)) :
            s \in subjects }

project_balance_snapshots(sts) ==
    UNION { { [subject |-> s.subject, asof |-> s.targets[i].asof, qty |-> s.targets[i].expected] :
                i \in DOMAIN s.targets } : s \in sts }

-----------------------------------------------------------------------------
(* Checkpoints *)

\* Target ids leave the observation out: two rows of one instant share an id, and the
\* dictionary keeps the last.
TargetById(s, asof) == Last(SelectSeq(s.targets, LAMBDA t : t.asof = asof))

continuity_kind(s, t) ==
    IF s.bounds[1] < t.asof \/ t.expected # 0 THEN "reconciled_rollforward"
    ELSE "observed_continuity"

ReadyRows(s) == SelectSeq(s.proposals, LAMBDA p : p.status = "ready")

Assertions(s) ==
    LET ready == ReadyRows(s)
    IN  [i \in DOMAIN ready |->
            LET t == TargetById(s, ready[i].asof)
            IN  [subject |-> s.subject, asof |-> ready[i].asof, qty |-> t.observed,
                 continuity |-> continuity_kind(s, t)]]

\* mutant: the target a ready proposal names is not looked at again
build_checkpoints_trusting(sts) ==
    [raised |-> FALSE,
     assertions |-> FlattenSeq(SetToSeq({ Assertions(s) : s \in sts }))]

build_checkpoints(sts) ==
    [raised |-> \E s \in sts : \E i \in DOMAIN ReadyRows(s) :
                    TargetById(s, ReadyRows(s)[i].asof).outcome # "matched",
     assertions |-> FlattenSeq(SetToSeq({ Assertions(s) : s \in sts }))]

\* what a reference cites: the evidence of the last proposal for its subject and instant
support_details_by_subject(sts, subject, asof) ==
    Last(SelectSeq((CHOOSE s \in sts : s.subject = subject).targets,
                   LAMBDA t : t.asof = asof)).evidence

\* one reference for every assertion
project_balance_references_from_checkpoint(sts, assertions) ==
    [i \in DOMAIN assertions |->
        [subject |-> assertions[i].subject, asof |-> assertions[i].asof,
         qty |-> assertions[i].qty,
         support |-> support_details_by_subject(sts, assertions[i].subject, assertions[i].asof)]]

-----------------------------------------------------------------------------
(* The command *)

NoBatch == [drafts |-> <<>>, issues |-> <<>>]
NoClaims == [claims |-> <<>>, decisions |-> <<>>, fields |-> <<>>, issues |-> <<>>]
NoEconomics == [raised |-> FALSE, events |-> <<>>]
NoCheckpoints == [raised |-> FALSE, assertions |-> <<>>]
NothingPublished == [facts |-> <<>>, snapshots |-> {}, references |-> <<>>, issues |-> <<>>,
                     summary |-> <<>>]

build_normalization_summary(facts, references, outside) ==
    <<[facts |-> Len(facts), references |-> Len(references), facts_outside_window |-> outside]>>

RowCount == FoldLeft(LAMBDA acc, m : acc + Len(exports[m]), 0, ById(DOMAIN exports))

Init ==
    /\ exports = <<>> /\ balances = {} /\ window = OpenWindow /\ stage = "capture"
    /\ batch = NoBatch /\ claimSet = NoClaims /\ projected = NoBatch
    /\ economics = NoEconomics /\ states = {} /\ checkpoints = NoCheckpoints
    /\ published = NothingPublished

products == <<batch, claimSet, projected, economics, states, checkpoints, published>>

\* the exchange writes one more row into a selected export
AddRow(m, r) ==
    /\ stage = "capture" /\ RowCount < MaxRows
    /\ m = 1 \/ m \in DOMAIN exports \/ 1 \in DOMAIN exports
    /\ exports' = IF m \in DOMAIN exports THEN [exports EXCEPT ![m] = Append(@, r)]
                  ELSE exports @@ (m :> <<r>>)
    /\ UNCHANGED <<balances, window, stage, products>>

AddBalance(b) ==
    /\ stage = "capture" /\ Cardinality(balances) < MaxBalances
    /\ b \notin balances
    /\ balances' = balances \cup {b}
    /\ UNCHANGED <<exports, window, stage, products>>

Translate ==
    /\ stage = "capture" /\ exports # <<>> /\ stage' = "translated"
    /\ batch' = translate_selected_inputs(exports)
    /\ UNCHANGED <<exports, balances, window, claimSet, projected, economics, states,
                   checkpoints, published>>

\* the claim set is written, read back and projected in one go
BuildClaims ==
    /\ stage = "translated"
    /\ IF NamesClash(exports)
          \/ ~ validate_kind_fields(build_coinbase_claim_set(exports, balances, batch).claims)
       THEN stage' = "raised" /\ UNCHANGED <<claimSet, projected>>
       ELSE /\ stage' = "claimed"
            /\ claimSet' = build_coinbase_claim_set(exports, balances, batch)
            /\ projected' = project_translation_batch_from_claim_set(claimSet')
    /\ UNCHANGED <<exports, balances, window, batch, economics, states, checkpoints, published>>

BuildEconomics ==
    /\ stage = "claimed"
    /\ economics' = build_economic_facts(claimSet)
    /\ stage' = IF economics'.raised THEN "raised" ELSE "economics"
    /\ UNCHANGED <<exports, balances, window, batch, claimSet, projected, states,
                   checkpoints, published>>

Reconcile ==
    /\ stage = "economics" /\ stage' = "reconciled"
    /\ states' = build_reconciliation_states(claimSet, economics)
    /\ UNCHANGED <<exports, balances, window, batch, claimSet, projected, economics,
                   checkpoints, published>>

Checkpoint ==
    /\ stage = "reconciled"
    /\ checkpoints' = build_checkpoints(states)
    /\ stage' = IF checkpoints'.raised THEN "raised" ELSE "checkpointed"
    /\ UNCHANGED <<exports, balances, window, batch, claimSet, projected, economics,
                   states, published>>

\* the products' facts, snapshots and references replace the windowed ones
Publish(w) ==
    /\ stage = "checkpointed" /\ stage' = "published" /\ window' = w
    /\ LET kept == filter_drafts_by_window(projected.drafts, w)
           facts == project_facts_from_economic_facts(claimSet, economics)
           references == project_balance_references_from_checkpoint(states, checkpoints.assertions)
       IN  published' =
            [facts |-> facts, snapshots |-> project_balance_snapshots(states),
             references |-> references,
             issues |-> filter_issues_by_window(exports, projected.issues, w),
             summary |-> build_normalization_summary(facts, references,
                            Len(projected.drafts) - Len(kept))]
    /\ UNCHANGED <<exports, balances, batch, claimSet, projected, economics,
                   states, checkpoints>>

\* the next capture of the source
NextCapture ==
    /\ stage \in {"raised", "published"}
    /\ exports' = <<>> /\ balances' = {} /\ window' = OpenWindow /\ stage' = "capture"
    /\ batch' = NoBatch /\ claimSet' = NoClaims /\ projected' = NoBatch
    /\ economics' = NoEconomics /\ states' = {} /\ checkpoints' = NoCheckpoints
    /\ published' = NothingPublished

Next ==
    \/ \E m \in Members, r \in Rows : AddRow(m, r)
    \/ \E b \in Balances : AddBalance(b)
    \/ Translate \/ BuildClaims \/ BuildEconomics \/ Reconcile \/ Checkpoint \/ NextCapture
    \/ \E w \in Windows : Publish(w)

Spec == Init /\ [][Next]_vars

-----------------------------------------------------------------------------
(* Properties *)

Stages == {"capture", "translated", "claimed", "economics", "reconciled", "checkpointed",
           "published", "raised"}

\* Every product has its shape: drafts and facts are valid transaction facts with one location
\* and distinct legs, decisions are accepted or blocked, proposals are ready or blocked.
TypeOK ==
    /\ stage \in Stages /\ window \in Windows \cup {OpenWindow} /\ balances \subseteq Balances
    /\ DOMAIN exports \subseteq Members /\ \A m \in DOMAIN exports : exports[m] \in Seq(Rows)
    /\ \A d \in Range(batch.drafts) : ValidFact(d.legs, d.policy)
    /\ \A d \in Range(projected.drafts) : ValidFact(d.legs, d.policy)
    /\ \A d \in Range(claimSet.decisions) : d.outcome \in {"accepted", "blocked"}
    /\ \A s \in states : \A p \in Range(s.proposals) : p.status \in {"ready", "blocked"}
    /\ \A f \in Range(published.facts) : ValidFact(f.legs, leg_policy_for_activity(f.op))

\* Row ids are unique within every export
IdsDistinct ==
    \A m \in DOMAIN exports : \A i, j \in DOMAIN exports[m] :
        exports[m][i].id = exports[m][j].id => i = j

Mentions(ref, id) == ref[1] # "row" /\ ref[1] # "at" /\ \E k \in 2..Len(ref) : ref[k] = id

\* Translation accounts for every row of every selected export once: by one draft that carries
\* its id, or by one issue, its own or that of the migration rows of its instant.  A migration
\* of more than two rows, a row of no known type and an unreadable instant are all issues.
RowsAccountedOnce ==
    (stage = "translated" /\ IdsDistinct /\ ~ NamesClash(exports)) =>
        \A m \in DOMAIN exports : \A i \in DOMAIN exports[m] :
            LET r == exports[m][i]
                issue == IF r.type = "asset migration" THEN <<"at", r.ts>>
                         ELSE <<"row", RowIndex(m, i)>>
            IN  Cardinality({ k \in DOMAIN batch.drafts : batch.drafts[k].file = FileName[m]
                                /\ Mentions(batch.drafts[k].ref, r.id) })
                + Cardinality({ k \in DOMAIN batch.issues :
                                batch.issues[k] = Issue(FileName[m], issue) }) = 1

\* Where no two drafts share a row reference, nothing of a draft is lost on the way through the
\* claim set: the drafts projected back from the persisted claims and sidecars are the ones the
\* adapter translated, leg by leg, with the leg each fee is charged to.
RoundTrip ==
    (stage = "claimed" /\ \A i, j \in DOMAIN batch.drafts :
        (batch.drafts[i].file = batch.drafts[j].file /\ batch.drafts[i].ref = batch.drafts[j].ref)
            => i = j) => projected.drafts = batch.drafts

LegSum(items, asset) ==
    SumLegs(FlattenSeq([i \in DOMAIN items |-> items[i].legs]), LAMBDA l : l.asset = asset)

AllAssets == { r.asset : r \in Rows } \cup { r.cur : r \in Rows }

\* What is published without a window moves exactly what was translated, asset by asset: no
\* quantity is counted twice or dropped by claims, economics and projection, also where rows
\* share an id.  (With a window the documents ask for less, see PublishedFactsInWindow.)
PublishedConserves ==
    stage = "published" /\ Unbounded(window) =>
        \A a \in AllAssets : LegSum(published.facts, a) = LegSum(batch.drafts, a)

\* The two ways to facts agree: the facts projected from the economic events are the ones the
\* compiler makes of the bridge's drafts, in their order, with the same leg kinds and charges,
\* when no window is set.
FactsAgree ==
    stage = "published" /\ Unbounded(window) => published.facts = compile_activity_drafts(projected.drafts)

\* Neither projection of the products back to what the bridge would have written, the drafts from
\* the claim set and the facts from the economic events, loses or changes anything.
ProjectionsAgree == RoundTrip /\ FactsAgree

\* A published reference is what the translated activity adds up to at its place, up to and
\* including its instant, and what the statement it cites says: a statement that disagrees with
\* the activity gives no reference, and statements that contradict each other never give two.
\* No window cuts into it ("windowed normalization does not apply to balance_references.csv",
\* docs/concepts/current-bridge-contracts.md:305).
CheckpointIsSum ==
    stage = "published" => \A r \in Range(published.references) :
        /\ \A b \in balances : claim_scope_id(b.member, <<"statement", b.row>>) \in r.support
                => b.qty = r.qty
        /\ r.qty = SumLegs(FlattenSeq([i \in DOMAIN batch.drafts |->
                    IF batch.drafts[i].location = r.subject[1] /\ batch.drafts[i].ts <= r.asof
                    THEN batch.drafts[i].legs ELSE <<>>]), LAMBDA l : l.asset = r.subject[2])

\* What the documentation says of windowed normalization: it applies to the facts.
PublishedFactsInWindow ==
    \A f \in Range(published.facts) : InWindow(f.ts, window)
=============================================================================
