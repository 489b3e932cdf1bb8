------------------------- MODULE SourceTranslation -------------------------
(***************************************************************************)
(* A capture and the translation of its files by the adapter the profile   *)
(* selected.  Rows are exported into the files, then the adapter runs.     *)
(*                                                                         *)
(* Binance translates file by file through translate_file_families: by     *)
(* priority, then by path, with a state the files share and a failure that *)
(* stays with its file.  The other adapters read all their files and let   *)
(* any exception end the command, which then publishes nothing.            *)
(***************************************************************************)
EXTENDS ChainTranslation

CONSTANTS
    Captures,   \* set of [adapter, files]: the adapter and its files, [family, name, rows] each
    RowsOf,     \* family -> the rows that are exported to a file of it
    MaxRows     \* adapter -> how many rows a capture holds at most

ASSUME CapturesAssumption ==
    /\ MaxRows \in [{ c.adapter : c \in Captures } -> Nat]
    /\ \A c \in Captures : \A f \in DOMAIN c.files : c.files[f].family \in DOMAIN RowsOf

VARIABLES
    adapter,    \* the adapter of the profile
    files,      \* the capture: file -> [family, name, rows]
    phase,      \* "exporting", "translating", then "compiled" or "aborted"
    pending,    \* Binance files not translated yet
    matched,    \* what the Binance order exports account for
    out         \* drafts, issues, reviews and the exception that ended the command

vars == << adapter, files, phase, pending, matched, out >>

Init ==
    /\ \E c \in Captures :
        /\ adapter = c.adapter
        /\ files = c.files
    /\ phase = "exporting"
    /\ pending = {}
    /\ matched = [convert |-> {}, p2p |-> {}]
    /\ out = Nothing

RowCount == FoldFunctionOnSet(+, 0, [f \in DOMAIN files |-> Len(files[f].rows)], DOMAIN files)

\* the platform's or the explorer's export holds one more row
ExportRow(f, r) ==
    /\ phase = "exporting" /\ RowCount < MaxRows[adapter]
    /\ files' = [files EXCEPT ![f].rows = Append(@, r)]
    /\ UNCHANGED << adapter, phase, pending, matched, out >>

-----------------------------------------------------------------------------
(* Binance *)

Add(o) ==
    [drafts |-> out.drafts \cup o.drafts, issues |-> out.issues \cup o.issues,
     reviews |-> out.reviews \cup o.reviews, raised |-> o.raised]

FileIssue(kind, f) == [kind |-> kind, rows |-> { << f, i >> : i \in DOMAIN files[f].rows }]

\* files no rule is registered for are reported before any other is read
translate_file_families ==
    /\ phase = "exporting" /\ adapter = "binance"
    /\ pending' = { f \in DOMAIN files : files[f].family \in DOMAIN BINANCE_FILE_TRANSLATION_RULES }
    /\ out' = [Nothing EXCEPT !.issues = { FileIssue("unsupported_file", f) : f \in
                                           DOMAIN files \ pending' }]
    /\ phase' = "translating"
    /\ UNCHANGED << adapter, files, matched >>

\* by priority, then by path
NextFile ==
    CHOOSE f \in pending : \A g \in pending :
        LET p == BINANCE_FILE_TRANSLATION_RULES[files[f].family]
            q == BINANCE_FILE_TRANSLATION_RULES[files[g].family]
        IN  p < q \/ (p = q /\ f <= g)

\* a ValueError costs the file and is reported; any other exception ends the command
FileOutcome(f, o) ==
    IF o.raised = "ValueError" THEN [Nothing EXCEPT !.issues = {FileIssue("translation_error", f)}]
    ELSE o

TranslateFile ==
    /\ phase = "translating" /\ pending # {}
    /\ LET f == NextFile
           o == translate_binance_file(files[f].family, f, files[f].rows, matched)
       IN  /\ out' = Add(FileOutcome(f, o))
           /\ matched' = IF o.raised = "" THEN matched_times(files[f].family, files[f].rows, matched)
                         ELSE matched
           /\ pending' = pending \ {f}
           /\ phase' = IF FileOutcome(f, o).raised # "" THEN "aborted" ELSE phase
    /\ UNCHANGED << adapter, files >>

-----------------------------------------------------------------------------
(* The other adapters *)

\* the rows of the files the profile's families claim; other files are passed over
collect_csv_row_results(families, Translate(_, _, _)) ==
    InOrder([f \in DOMAIN files |->
                IF files[f].family \notin families THEN Nothing
                ELSE InOrder([i \in DOMAIN files[f].rows |->
                        Translate(files[f].family, << f, i >>, files[f].rows[i])])])

LocationIssues(kinds) == { [kind |-> k, rows |-> {}] : k \in kinds }

WithLocations(o, kinds) == [o EXCEPT !.issues = @ \cup LocationIssues(kinds)]

translate_capture ==
    CASE adapter = "shakepay" -> collect_csv_row_results({"cash", "crypto"}, shakepay_translate_row)
      [] adapter = "wealthsimple" ->
            collect_csv_row_results({"activity"}, LAMBDA k, at, r : wealthsimple_normalize_row(at, r))
      [] adapter = "crypto_com" ->
            collect_csv_row_results({"transactions"}, LAMBDA k, at, r : crypto_com_normalize_row(at, r))
      [] adapter = "gtrade" ->
            collect_csv_row_results({"trades"}, LAMBDA k, at, r : gtrade_translate_row(at, r))
      [] adapter = "structured_csv" -> translate_structured_csv(files)
      [] adapter = "near" -> near_translate_transactions(files)
      [] adapter = "ledger_live" ->
            WithLocations(translate_operations(files), ledger_location_issues(files))
      [] adapter = "evm_explorer" ->
            WithLocations(evm_translate_transactions(files),
                          address_location_issues(evm_owned_addresses(files)))
      [] adapter = "ronin" ->
            WithLocations(ronin_translate_transactions(files),
                          address_location_issues(ronin_owned_addresses(files)))

TranslateCapture ==
    /\ phase = "exporting" /\ adapter # "binance"
    /\ out' = translate_capture
    /\ phase' = IF out'.raised # "" THEN "aborted" ELSE "translating"
    /\ UNCHANGED << adapter, files, pending, matched >>

\* every leg names one instrument, so every draft becomes a fact
compile_activity_drafts_with_feedback ==
    /\ phase = "translating" /\ pending = {}
    /\ phase' = "compiled"
    /\ UNCHANGED << adapter, files, pending, matched, out >>

Next ==
    \/ \E f \in DOMAIN files : \E r \in RowsOf[files[f].family] : ExportRow(f, r)
    \/ translate_file_families
    \/ TranslateFile
    \/ TranslateCapture
    \/ compile_activity_drafts_with_feedback

Spec == Init /\ [][Next]_vars

-----------------------------------------------------------------------------
(* Properties *)

\* A capture is translated in phases; what it yields are valid drafts of its own rows, issues
\* and reviews.
TypeOK ==
    /\ phase \in {"exporting", "translating", "compiled", "aborted"}
    /\ pending \subseteq DOMAIN files
    /\ \A f \in DOMAIN files : Range(files[f].rows) \subseteq RowsOf[files[f].family]
            \cup UNION { Range(c.files[f].rows) : c \in { x \in Captures : f \in DOMAIN x.files } }
    /\ \A d \in out.drafts :
        /\ ValidDraft(d.legs, d.policy)
        /\ \A at \in d.rows : at[1] \in DOMAIN files /\ at[2] \in DOMAIN files[at[1]].rows
    /\ phase = "aborted" <=> out.raised # ""

Family(at) == files[at[1]].family
Compiled(a) == phase = "compiled" /\ adapter = a
FailedFiles == { f \in DOMAIN files : \E i \in out.issues : i = FileIssue("translation_error", f) }

\* A conversion or a P2P trade the transaction history shows is reported as ambiguous or
\* unsupported exactly if no order export that was translated accounts for its time:
\* the order files come first whatever their paths, and one that failed accounts for nothing
\* (translation.py sorts by priority; normalize_transaction_rows reads what they left).
OrdersSettled ==
    Compiled("binance") =>
        \A op \in {"Binance Convert", "P2P Trading"} :
        \A at \in { x \in Range(RowRefs(files, {"history"})) :
                    RowAt(files, x).op = op /\ x[1] \notin FailedFiles } :
            LET r == RowAt(files, at)
                orders == IF op = "Binance Convert" THEN "convert" ELSE "c2c"
                settled == \E d \in out.drafts : \E o \in d.rows :
                            Family(o) = orders /\ RowAt(files, o).time.at = r.time.at
            IN  ~ should_ignore_historical_operation(r.time.at, op) =>
                    ((\E i \in out.issues : at \in i.rows) <=> ~ settled)

\* A Binance file that failed leaves nothing but its report, and its failure costs no row of
\* another order file its draft (translate_file_families catches ValueError per file).
FailureStaysWithFile ==
    Compiled("binance") =>
        \A f \in DOMAIN files :
            LET alone == translate_binance_file(files[f].family, f, files[f].rows,
                                                [convert |-> {}, p2p |-> {}])
                drafts == { d \in out.drafts : \E at \in d.rows : at[1] = f }
            IN  files[f].family \in DOMAIN BINANCE_FILE_TRANSLATION_RULES =>
                    drafts = (IF f \in FailedFiles THEN {} ELSE alone.drafts)

\* A Binance capture books what its readable files hold: orders and the history agree on each
\* fill, whichever file is translated first and whichever fails.
BinanceSettled == OrdersSettled /\ FailureStaysWithFile

RawRows(h) == { at \in Range(RowRefs(files, {"explorer_export"})) : RowAt(files, at).hash = h }

\* A Ronin transfer that the raw exports repeat, and that the summary may show as well, is one
\* draft (the raw rows are told apart by raw_signature and are preferred to the summary).
RepeatedExportCountsOnce ==
    Compiled("ronin") =>
        \A at \in Range(RowRefs(files, {"explorer_export"})) :
            LET r == RowAt(files, at)
                owned == ronin_owned_addresses(files)
            IN  /\ parse_raw_row(r) # None /\ r.status = "success" /\ r.method = "transfer"
                /\ Inbound(r, owned) \/ Outbound(r, owned)
                /\ \A b \in RawRows(r.hash) : RowAt(files, b) = r
                => Cardinality({ d \in out.drafts : \E b \in d.rows : RowAt(files, b).hash = r.hash })
                   = 1

\* The readable rows of the transactions that are in both Ronin exports, in pairs.
SharedRows ==
    { p \in Range(RowRefs(files, {"explorer_export"})) \X Range(RowRefs(files, {"action_summary"})) :
        /\ parse_raw_row(RowAt(files, p[1])) # None /\ parse_summary_row(RowAt(files, p[2])) # None
        /\ RowAt(files, p[1]).hash = RowAt(files, p[2]).hash }

\* Summary rows have no zone.  Every draft of a summary row has an instant that the two exports
\* together prove: the offset is the one some transaction in both of them shows, and no other
\* such transaction is nearer in the summary's time (infer_summary_utc_timestamp).  Where no
\* transaction is in both, nothing of the summary is booked and every transaction of it is
\* reported (summary.py: "require a companion raw export to infer authoritative UTC timestamps").
SummaryClockProved ==
    Compiled("ronin") =>
        LET summary == { x \in Range(RowRefs(files, {"action_summary"})) :
                            parse_summary_row(RowAt(files, x)) # None }
            utc(p) == RowAt(files, p[1]).time.at
            local(at) == RowAt(files, at).time.at
            far(p, at) == Magnitude(local(p[2]) - local(at))
        IN  \A at \in summary :
                /\ \A d \in { e \in out.drafts : at \in e.rows } :
                    \E p \in SharedRows :
                        /\ d.ts - local(at) = utc(p) - local(p[2])
                        /\ \A q \in SharedRows : far(p, at) <= far(q, at)
                /\ SharedRows = {} => \E i \in out.issues : \E b \in i.rows \cap summary :
                                        RowAt(files, b).hash = RowAt(files, at).hash

\* Tokens moved by a contract call the adapter does not understand, or along with a collectible,
\* are never booked as a plain transfer, whichever file comes first; nor is a transfer between
\* two of the owner's addresses (translate_transactions collects both sets over all files).
ContractCallsNotBooked ==
    Compiled("evm_explorer") =>
        \A d \in out.drafts : \A at \in d.rows : Family(at) = "token_transfers" =>
            LET r == RowAt(files, at)
            IN  /\ ~ \E b \in Range(RowRefs(files, {"native_transfers", "nft_transfers"})) :
                        /\ RowAt(files, b).hash = r.hash
                        /\ Family(b) = "nft_transfers" \/ RowAt(files, b).method \notin SIMPLE_METHODS
                /\ ~ { r.from, r.to } \subseteq evm_owned_addresses(files)

\* Every reward and every leg of a dust conversion in the transaction history is in a draft or
\* in an issue (normalize_transaction_rows: unsupported and ambiguous rows are to be reported).
HistoryRowsSurface ==
    Compiled("binance") =>
        \A at \in { x \in Range(RowRefs(files, {"history"})) :
                    /\ RowAt(files, x).op \in {"ETH 2.0 Staking Rewards", "Small Assets Exchange BNB"}
                    /\ x[1] \notin FailedFiles /\ RowAt(files, x).change # None } :
            \E e \in out.drafts \cup out.issues : at \in e.rows
=============================================================================
