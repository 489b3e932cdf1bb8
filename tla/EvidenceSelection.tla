--------------------------- MODULE EvidenceSelection ---------------------------
(***************************************************************************)
(* Which files of a capture speak for it.  Before a capture is translated  *)
(* the planner decides, for every activity export the adapter describes,   *)
(* whether it is selected, superseded or blocked; statement documents go   *)
(* through a selection of their own; both selections are persisted as an   *)
(* evidence set, the plan is rebuilt from that set, and only the plan that *)
(* was rebuilt may let the translation go on.                              *)
(*                                                                         *)
(* An export is a record: path, members, first and last instant (0 where   *)
(* no timestamp could be read), sha, a freshness kind and value, and what  *)
(* the adapter says of it (group, mode, comparison key, comparable).       *)
(* Exports given by a planning adapter other than Coinbase's are the       *)
(* contract of TranslationInputPlanningAdapter, not of one adapter.        *)
(***************************************************************************)
EXTENDS Integers, Sequences, FiniteSets, FiniteSetsExt, SequencesExt, TLC

CONSTANTS
    Exports,      \* the activity exports a capture may hold
    Documents,    \* the statement documents a capture may hold
    MaxFiles,     \* bound on the exports and documents of one capture
    Horizon       \* the latest instant

ASSUME BoundAssumption ==
    /\ MaxFiles \in Nat
    /\ Horizon \in Nat \ {0}

\* what every export has, whatever adapter describes it
ASSUME ExportAssumption ==
    \A f \in Exports :
        /\ f.path \in Nat /\ f.rank \in Nat
        /\ f.first \in 0..Horizon /\ f.last \in 0..Horizon
        /\ f.kind \in {"unknown", "adapter_rank", "capture_completed_at", "export_timestamp"}

VARIABLES
    files,      \* exports in the capture's raw folder
    documents,  \* statement documents in it
    stage,      \* where execute_translation stands
    collected,  \* statement document -> member status
    plan,       \* the planner's plan
    evidence,   \* the persisted evidence set
    compat,     \* the plan rebuilt from the evidence set
    translated  \* the exports whose rows were translated, in order

vars == <<files, documents, stage, collected, plan, evidence, compat, translated>>

-----------------------------------------------------------------------------
(* Candidates *)

Blocked(status) == status \notin {"selected", "superseded_identical", "superseded_replaced"}

FreshnessKinds == [unknown |-> 0, adapter_rank |-> 1, capture_completed_at |-> 2,
                   export_timestamp |-> 3]

\* coverage window: what the inventory read of the activity timestamps
Coverage(f) ==
    [mode |-> CASE f.first = 0 /\ f.last = 0 -> "unknown"
                [] f.first = 0 /\ f.last # 0 -> "unbounded_start"
                [] f.first # 0 /\ f.last = 0 -> "unbounded_end"
                [] OTHER -> "bounded",
     start |-> f.first, end |-> f.last]

\* the fingerprint names the bytes, the group and the mode
Fingerprint(f) == <<f.sha, f.group, f.mode>>

Describe(f) ==
    [id |-> f.path, group |-> f.group, mode |-> f.mode, key |-> f.key,
     comparable |-> f.comparable, members |-> f.members,
     coverage |-> Coverage(f),
     kind |-> f.kind, rank |-> f.rank, fingerprint |-> Fingerprint(f)]

describe_translation_inputs(fs) == { Describe(f) : f \in fs }

Bounds(c) == <<c.coverage.start,
               IF c.coverage.end = 0 THEN Horizon + 1 ELSE c.coverage.end>>

\* mutant: ranges that meet in one instant are taken for disjoint
coverage_relation_open(a, b) ==
    LET l == Bounds(a)  r == Bounds(b)
    IN  CASE "unknown" \in {a.coverage.mode, b.coverage.mode} -> "unknown"
          [] l[2] <= r[1] \/ r[2] <= l[1] -> "disjoint"
          [] OTHER -> "partial"

coverage_relation(a, b) ==
    LET l == Bounds(a)  r == Bounds(b)
        unknown == "unknown" \in {a.coverage.mode, b.coverage.mode}
        apart == l[2] < r[1] \/ r[2] < l[1]
        equal == l = r /\ a.coverage.mode = b.coverage.mode
        contains == l[1] <= r[1] /\ l[2] >= r[2]
        within == r[1] <= l[1] /\ r[2] >= l[2]
    IN  IF unknown THEN "unknown" ELSE IF apart THEN "disjoint" ELSE
        CASE equal -> "equal"
          [] ~ equal /\ contains -> "contains"
          [] ~ equal /\ ~ contains /\ within -> "within"
          [] OTHER -> "partial"

\* the modes agree with the bounds by construction; the bounds must be in order
validate_coverage(c) ==
    c.coverage.mode = "bounded" => c.coverage.start <= c.coverage.end

\* every kind but unknown carries the value it is compared by
validate_freshness(c) == c.kind = "unknown" \/ c.rank # 0

\* members are listed, are in the profile's inventory, and give the fingerprint
validate_candidate(c) ==
    c.members # {} /\ validate_coverage(c) /\ validate_freshness(c)

has_invalid_member_overlap(cs) ==
    \E a, b \in cs : a.members \cap b.members # {} /\ a.members # b.members

FreshnessKey(c) == <<FreshnessKinds[c.kind],
                     IF c.kind = "unknown" THEN 0 ELSE c.rank>>

Fresher(a, b) ==
    \/ FreshnessKey(a)[1] > FreshnessKey(b)[1]
    \/ FreshnessKey(a)[1] = FreshnessKey(b)[1] /\ FreshnessKey(a)[2] > FreshnessKey(b)[2]

freshest_candidates(cs) == { c \in cs : \A d \in cs : ~ Fresher(d, c) }

all_identical_candidates(cs) ==
    \A a, b \in cs : a.coverage = b.coverage /\ a.fingerprint = b.fingerprint

\* freshest first, then the smallest candidate id
deterministic_duplicate_winner(cs) ==
    CHOOSE w \in freshest_candidates(cs) :
        \A d \in freshest_candidates(cs) : w.id <= d.id

winner_contains_all_candidates(w, cs) ==
    \A c \in cs : Bounds(w)[1] <= Bounds(c)[1] /\ Bounds(w)[2] >= Bounds(c)[2]

-----------------------------------------------------------------------------
(* The planner *)

\* a plan's decisions: candidate id -> status, what it replaces, what it conflicts with
blocked_group(cs, status) ==
    [i \in { c.id : c \in cs } |->
        [status |-> status, replaces |-> {},
         conflicts |-> { c.id : c \in cs } \ {i}]]

superseded_status(c, w) ==
    IF c.coverage = w.coverage /\ c.fingerprint = w.fingerprint
    THEN "superseded_identical" ELSE "superseded_replaced"

build_supersession_plan(cs, w) ==
    [i \in { c.id : c \in cs } |->
        IF i = w.id
        THEN [status |-> "selected", replaces |-> { c.id : c \in cs } \ {i},
              conflicts |-> {}]
        ELSE [status |-> superseded_status(CHOOSE c \in cs : c.id = i, w),
              replaces |-> {}, conflicts |-> {w.id}]]

NoUniqueFreshest(cs) ==
    Cardinality(freshest_candidates(cs)) # 1 /\ ~ all_identical_candidates(cs)

plan_exclusive_group(cs) ==
    IF NoUniqueFreshest(cs) THEN blocked_group(cs, "blocked_ambiguous_freshness")
    ELSE build_supersession_plan(cs, deterministic_duplicate_winner(cs))

incomparable(cs) ==
    (\E c \in cs : ~ c.comparable) \/ Cardinality({ c.key : c \in cs }) # 1

plan_appendable_component(cs) ==
    IF all_identical_candidates(cs)
    THEN build_supersession_plan(cs, deterministic_duplicate_winner(cs))
    ELSE blocked_group(cs, "blocked_partial_overlap")

\* mutant: the freshest export wins whatever it covers
plan_replaceable_component_by_freshness(cs) ==
    IF NoUniqueFreshest(cs) THEN blocked_group(cs, "blocked_ambiguous_freshness")
    ELSE build_supersession_plan(cs, deterministic_duplicate_winner(cs))

plan_replaceable_component(cs) ==
    LET w == deterministic_duplicate_winner(cs)
    IN  CASE NoUniqueFreshest(cs) -> blocked_group(cs, "blocked_ambiguous_freshness")
          [] ~ NoUniqueFreshest(cs) /\ ~ winner_contains_all_candidates(w, cs) ->
                blocked_group(cs, "blocked_partial_overlap")
          [] OTHER -> build_supersession_plan(cs, w)

plan_overlap_component(cs, mode) ==
    CASE Cardinality(cs) = 1 -> build_supersession_plan(cs, CHOOSE c \in cs : TRUE)
      [] Cardinality(cs) > 1 /\ incomparable(cs) ->
            blocked_group(cs, "blocked_incomparable_candidates")
      [] Cardinality(cs) > 1 /\ ~ incomparable(cs) /\ mode = "appendable_range" ->
            plan_appendable_component(cs)
      [] OTHER -> plan_replaceable_component(cs)

\* the sets of candidates linked by a chain of overlaps: what every set that holds the
\* candidate, and with a candidate all that meet it, has in common
OverlapClosed(cs, s) ==
    \A c \in cs, d \in s : coverage_relation(c, d) # "disjoint" => c \in s

overlap_component(cs, c) ==
    { d \in cs : \A s \in SUBSET cs : c \in s /\ OverlapClosed(cs, s) => d \in s }

overlap_components(cs) == { overlap_component(cs, c) : c \in cs }

group_failures(cs) ==
    LET invalid == \E c \in cs : ~ validate_candidate(c)
        unknown == Cardinality(cs) > 1 /\ \E c \in cs : c.coverage.mode = "unknown"
    IN  CASE ~ invalid /\ unknown -> "blocked_unknown_coverage"
          [] invalid \/ (~ unknown /\ has_invalid_member_overlap(cs)) ->
                "blocked_invalid_candidate"
          [] OTHER -> "none"

group_policy(cs) ==
    LET modes == { c.mode : c \in cs }
    IN  CASE "exclusive_snapshot" \in modes -> "exclusive_snapshot"
          [] Cardinality(modes) = 1 -> CHOOSE m \in modes : TRUE
          [] OTHER -> "none"

\* the decisions of disjoint groups or components, put together
Joined(fs) ==
    [i \in UNION { DOMAIN f : f \in fs } |-> (CHOOSE f \in fs : i \in DOMAIN f)[i]]

plan_group(cs) ==
    CASE group_failures(cs) # "none" -> blocked_group(cs, group_failures(cs))
      [] group_failures(cs) = "none" /\ group_policy(cs) = "none" ->
            blocked_group(cs, "blocked_invalid_candidate")
      [] group_failures(cs) = "none" /\ group_policy(cs) = "exclusive_snapshot" ->
            plan_exclusive_group(cs)
      [] OTHER -> Joined({ plan_overlap_component(k, group_policy(cs)) :
                            k \in overlap_components(cs) })

SelectedBefore(a, b) ==
    \/ a.coverage.start < b.coverage.start
    \/ /\ a.coverage.start = b.coverage.start
       /\ \/ Bounds(a)[2] < Bounds(b)[2]
          \/ Bounds(a)[2] = Bounds(b)[2] /\ (Fresher(a, b) \/ (~ Fresher(b, a) /\ a.id < b.id))

\* the candidates in the order their rows are translated in: the i-th has i - 1 before it
InPosition(cs, i) ==
    CHOOSE c \in cs : Cardinality({ d \in cs : SelectedBefore(d, c) }) = i - 1

SelectionOrder(cs) == [i \in 1..Cardinality(cs) |-> InPosition(cs, i)]

build_translation_plan(cs, decisions) ==
    [selected |-> SelectionOrder({ c \in cs : decisions[c.id].status = "selected" }),
     decisions |-> decisions,
     blocked |-> \E i \in DOMAIN decisions : Blocked(decisions[i].status)]

plan_translation_inputs(cs) ==
    build_translation_plan(cs,
        Joined({ plan_group({ c \in cs : c.group = g }) : g \in { c.group : c \in cs } }))

-----------------------------------------------------------------------------
(* Statement documents: path, matching, recognized, rows in the order they  *)
(* were read, effective date of the document and as-of date of the          *)
(* statement (0 where unknown).                                             *)

Usable(ds) == { d \in ds : d.matches /\ d.recognized /\ d.rows # <<>> }

latest_recognized_documents(ds) ==
    LET effective == { d \in ds : d.effective # 0 }
        dated == { d \in ds : d.asof # 0 }
    IN  IF effective # {} THEN { d \in effective : \A e \in effective : e.effective <= d.effective }
        ELSE { d \in dated : \A e \in dated : e.asof <= d.asof }

evidence_documents_for_latest_snapshot(ds, latest) ==
    IF latest.asof = 0 THEN {latest} ELSE { d \in ds : d.asof = latest.asof }

collect_statement_documents(ds) ==
    LET usable == Usable(ds)
        latest == latest_recognized_documents(usable)
    IN  [d \in usable |->
            CASE latest = {} -> "blocked"
              [] latest # {} /\ Cardinality(latest) > 1 ->
                    IF d \in latest THEN "blocked" ELSE "superseded"
              [] OTHER ->
                    IF d \in evidence_documents_for_latest_snapshot(usable,
                                CHOOSE l \in latest : TRUE)
                    THEN "selected" ELSE "superseded"]

\* effective date, else statement date; then the path
PrecedenceValue(d) == IF d.effective # 0 THEN d.effective ELSE d.asof

Precedes(d, e) ==
    \/ PrecedenceValue(d) > PrecedenceValue(e)
    \/ PrecedenceValue(d) = PrecedenceValue(e) /\ d.path > e.path

\* of the rows on the same place, kind, asset and date only the first that is read speaks
RowKey(r) == <<r.place, r.kind, r.asset, r.asof>>

\* the location a row's wallet or account resolves to: the source's own label is dropped
statement_row_location(r) == IF r.place = "source" THEN "root" ELSE r.place

reference_balance_kind(kind) ==
    IF kind \in {"asset_balance", "cash_closing_balance"} THEN "available" ELSE kind

\* what the statement parsers see to: every row names its place (none is blank), a place
\* is given in one of the kinds that become "available"; an asset is written in one way
ASSUME DocumentAssumption ==
    /\ \A d \in Documents :
        /\ d.path \in Nat /\ d.effective \in Nat /\ d.asof \in Nat
        /\ DOMAIN d.rows \subseteq Nat
        /\ \A i \in DOMAIN d.rows : d.rows[i].qty \in Int
    /\ \A d, e \in Documents : \A r \in Range(d.rows), q \in Range(e.rows) :
        /\ r.place # "root"
        /\ r.place = q.place /\ reference_balance_kind(r.kind) = reference_balance_kind(q.kind)
            => r.kind = q.kind

\* no earlier row of the document is on the same
FirstOfKey(d, i) ==
    \A k \in DOMAIN d.rows : k < i => RowKey(d.rows[k]) # RowKey(d.rows[i])

\* no row of the document is on the same as row r
Silent(d, r) == \A k \in DOMAIN d.rows : RowKey(d.rows[k]) # RowKey(r)

\* mutant: the document with the lower path speaks
SpokenRowsByPath(ds, d) ==
    { i \in DOMAIN d.rows : /\ FirstOfKey(d, i)
                           /\ \A e \in ds : e.path < d.path => Silent(e, d.rows[i]) }

\* mutant: a document's own rows do not silence each other
SpokenRowsOfOthers(ds, d) ==
    { i \in DOMAIN d.rows : \A e \in ds : Precedes(e, d) => Silent(e, d.rows[i]) }

\* The rows that were not seen before, by position: documents are read in the order of
\* precedence, their rows in their own, and a row is seen whether or not it states anything.
SpokenRows(ds, d) ==
    { i \in DOMAIN d.rows : /\ FirstOfKey(d, i)
                           /\ \A e \in ds : Precedes(e, d) => Silent(e, d.rows[i]) }

RowTarget(r) == <<statement_row_location(r), r.asset, r.kind, r.asof>>

\* what the rows at these positions add up to
Total(d, ps) ==
    LET sum[s \in SUBSET ps] ==
            IF s = {} THEN 0
            ELSE d.rows[CHOOSE i \in s : TRUE].qty + sum[s \ {CHOOSE i \in s : TRUE}]
    IN  sum[ps]

\* a quantity, a date and a known instrument
States(r) == r.stated /\ r.asof # 0 /\ r.known

StatedRows(ds, d) == { i \in SpokenRows(ds, d) : States(d.rows[i]) }

\* one reference per target and document
statement_reference(ds, d, t) ==
    [location |-> t[1], asset |-> t[2], kind |-> reference_balance_kind(t[3]), asof |-> t[4],
     document |-> d.path,
     quantity |-> Total(d, { i \in StatedRows(ds, d) : RowTarget(d.rows[i]) = t })]

statement_references(ds) ==
    UNION { { statement_reference(ds, d, RowTarget(d.rows[i])) : i \in StatedRows(ds, d) } :
            d \in ds }

-----------------------------------------------------------------------------
(* The evidence set *)

retail_selection_basis(decisions) ==
    LET statuses == { decisions[i].status : i \in DOMAIN decisions }
    IN  CASE statuses \cap {"blocked_partial_overlap", "blocked_ambiguous_freshness"} # {} ->
                "ambiguous_overlap"
          [] statuses \cap {"blocked_partial_overlap", "blocked_ambiguous_freshness"} = {}
                /\ (\E s \in statuses : Blocked(s)) -> "upstream_gap"
          [] (\A s \in statuses : ~ Blocked(s)) /\ "superseded_identical" \in statuses ->
                "duplicate"
          [] OTHER -> IF "superseded_replaced" \in statuses \/ Cardinality(DOMAIN decisions) > 1
                      THEN "coverage" ELSE "single_member"

retail_selection_gap_refs(decisions) ==
    { s \in { decisions[i].status : i \in DOMAIN decisions } : Blocked(s) }

\* mutant: a candidate that repeats another is recorded as selected
retail_member_status_of_identical(status) ==
    CASE status \in {"selected", "superseded_identical"} -> "selected"
      [] Blocked(status) -> "blocked"
      [] OTHER -> "superseded"

retail_member_status(status) ==
    CASE status = "selected" -> "selected"
      [] Blocked(status) -> "blocked"
      [] OTHER -> "superseded"

statement_selection_basis(d, status) ==
    LET latest == latest_recognized_documents(DOMAIN status)
    IN  CASE status[d] = "blocked" /\ latest = {} -> "upstream_gap"
          [] status[d] = "blocked" /\ latest # {} -> "ambiguous_overlap"
          [] \E e \in DOMAIN status : status[e] = "superseded" /\ status[d] # "blocked" ->
                "freshness"
          [] OTHER -> "single_member"

\* what an observation is made of: the document and each of its rows
statement_observations(status) ==
    UNION { { <<d.path, <<>>>> } \cup { <<d.path, <<i, d.rows[i]>>>> : i \in DOMAIN d.rows } :
            d \in { e \in DOMAIN status : status[e] = "selected" } }

\* The records of a selection; every id begins with the set's id.
RetailSelection == <<"retail_activity_export_file">>
StatementSelection(path) == <<"statement_document", path>>

retail_member_records(cs, p) ==
    { [kind |-> "retail", locator |-> c.id, key |-> RetailSelection,
       status |-> retail_member_status(p.decisions[c.id].status)] : c \in cs }

EvidenceContent(cs, p, status) ==
    [selections |->
        (IF cs = {} THEN {} ELSE
            {[key |-> RetailSelection, basis |-> retail_selection_basis(p.decisions),
              gaps |-> retail_selection_gap_refs(p.decisions)]})
        \cup { [key |-> StatementSelection(d.path),
                basis |-> statement_selection_basis(d, status),
                gaps |-> IF status[d] = "blocked" THEN {d.path} ELSE {}] : d \in DOMAIN status },
     members |->
        retail_member_records(cs, p) \cup
            { [kind |-> "statement", locator |-> d.path, key |-> StatementSelection(d.path),
                status |-> status[d]] : d \in DOMAIN status },
     observations |-> statement_observations(status)]

NoEvidence == [id |-> "none"]

\* the id is the fingerprint of the content; the provisional id never survives
build_evidence_set(cs, p, status) ==
    LET content == EvidenceContent(cs, p, status)
    IN  IF content.selections = {} THEN NoEvidence
        ELSE [id |-> content,
              selections |-> { [set |-> content, id |-> <<content, s.key>>, basis |-> s.basis,
                                gaps |-> s.gaps, key |-> s.key] : s \in content.selections },
              members |-> { [set |-> content, selection |-> <<content, m.key>>,
                             id |-> <<content, m.kind, m.locator>>, kind |-> m.kind,
                             locator |-> m.locator, status |-> m.status] : m \in content.members },
              observations |-> { [set |-> content, member |-> <<content, "statement", o[1]>>,
                                  id |-> <<content, o>>] : o \in content.observations }]

-----------------------------------------------------------------------------
(* The plan rebuilt from the evidence set *)

\* what the rebuilt plan says where the planner's decision does not fit the member
blocked_decision_status(selection) ==
    LET ranked == <<"blocked_unknown_coverage", "blocked_incomparable_candidates",
                    "blocked_invalid_candidate", "blocked_partial_overlap",
                    "blocked_ambiguous_freshness">>
        named == SelectSeq(ranked, LAMBDA s : s \in selection.gaps)
    IN  CASE named # <<>> -> named[1]
          [] named = <<>> /\ selection.basis = "ambiguous_overlap" -> "blocked_ambiguous_freshness"
          [] OTHER -> "blocked_incomparable_candidates"

inferred_decision(selection, status) ==
    [status |-> CASE status = "selected" -> "selected"
                  [] status = "superseded" -> IF selection.basis = "duplicate"
                                              THEN "superseded_identical"
                                              ELSE "superseded_replaced"
                  [] OTHER -> blocked_decision_status(selection),
     replaces |-> {}, conflicts |-> {}]

planner_status_matches_member(memberStatus, plannerStatus) ==
    CASE memberStatus = "selected" -> plannerStatus = "selected"
      [] memberStatus = "superseded" ->
            plannerStatus \in {"superseded_identical", "superseded_replaced"}
      [] OTHER -> Blocked(plannerStatus)

\* the planner's order where it selects the same candidates, else the same sort key
selected_candidate_ids(retail, cs, p) ==
    LET chosen == { c \in cs : \E m \in retail : m.locator = c.id /\ m.status = "selected" }
    IN  IF Range(p.selected) = chosen THEN p.selected ELSE SelectionOrder(chosen)

reconstruct_translation_input_plan(set, cs, p) ==
    LET retail == { m \in set.members : m.kind = "retail" }
        selection == CHOOSE s \in set.selections : s.key = RetailSelection
        Decision(m) ==
            IF planner_status_matches_member(m.status, p.decisions[m.locator].status)
            THEN p.decisions[m.locator]
            ELSE inferred_decision(selection, m.status)
        decisions == [i \in { m.locator : m \in retail } |->
                        Decision(CHOOSE m \in retail : m.locator = i)]
    IN  [selected |-> selected_candidate_ids(retail, cs, p), decisions |-> decisions,
         blocked |-> \E i \in DOMAIN decisions : Blocked(decisions[i].status)]

-----------------------------------------------------------------------------
(* execute_translation *)

NoPlan == [selected |-> <<>>, decisions |-> <<>>, blocked |-> FALSE]

Init ==
    /\ files = {} /\ documents = {} /\ stage = "capture"
    /\ collected = <<>> /\ plan = NoPlan /\ compat = NoPlan
    /\ evidence = NoEvidence /\ translated = <<>>

\* the owner downloads another export or statement into the capture
AddFile(f) ==
    /\ stage = "capture" /\ Cardinality(files) + Cardinality(documents) < MaxFiles
    /\ \A g \in files : g.path # f.path
    /\ files' = files \cup {f}
    /\ UNCHANGED <<documents, stage, collected, plan, evidence, compat, translated>>

AddDocument(d) ==
    /\ stage = "capture" /\ Cardinality(files) + Cardinality(documents) < MaxFiles
    /\ \A e \in documents : e.path # d.path
    /\ documents' = documents \cup {d}
    /\ UNCHANGED <<files, stage, collected, plan, evidence, compat, translated>>

CollectStatements ==
    /\ stage = "capture" /\ stage' = "collected"
    /\ collected' = collect_statement_documents(documents)
    /\ UNCHANGED <<files, documents, plan, evidence, compat, translated>>

PlanInputs ==
    /\ stage = "collected" /\ stage' = "planned"
    /\ plan' = plan_translation_inputs(describe_translation_inputs(files))
    /\ UNCHANGED <<files, documents, collected, evidence, compat, translated>>

\* the evidence set is written, then the plan is rebuilt from it and published
PublishPlan ==
    /\ stage = "planned"
    /\ LET cs == describe_translation_inputs(files)
       IN  /\ evidence' = build_evidence_set(cs, plan, collected)
           /\ compat' = IF evidence' = NoEvidence THEN plan
                        ELSE reconstruct_translation_input_plan(evidence', cs, plan)
    /\ stage' = IF compat'.blocked THEN "stopped" ELSE "published"
    /\ UNCHANGED <<files, documents, collected, plan, translated>>

\* the plan that is executed is the planner's, not the rebuilt one
TranslateSelected ==
    /\ stage = "published" /\ stage' = "translated"
    /\ translated' = plan.selected
    /\ UNCHANGED <<files, documents, collected, plan, evidence, compat>>

\* a new capture of the same source
NextCapture ==
    /\ stage \in {"stopped", "translated"}
    /\ files' = {} /\ documents' = {} /\ stage' = "capture"
    /\ collected' = <<>> /\ plan' = NoPlan /\ compat' = NoPlan
    /\ evidence' = NoEvidence /\ translated' = <<>>

Next ==
    \/ \E f \in Exports : AddFile(f)
    \/ \E d \in Documents : AddDocument(d)
    \/ CollectStatements \/ PlanInputs \/ PublishPlan \/ TranslateSelected
    \/ NextCapture

Spec == Init /\ [][Next]_vars

-----------------------------------------------------------------------------
(* Properties *)

Stages == {"capture", "collected", "planned", "published", "stopped", "translated"}

\* The type invariant: the stages of execute_translation, a status for every usable
\* document, and a decision for every export once the planner has run.
TypeOK ==
    /\ files \subseteq Exports /\ documents \subseteq Documents /\ stage \in Stages
    /\ stage # "capture" =>
        collected \in [Usable(documents) -> {"selected", "superseded", "blocked"}]
    /\ stage \notin {"capture", "collected"} =>
        DOMAIN plan.decisions = { f.path : f \in files }
    /\ translated \in Seq(describe_translation_inputs(files))

Covers(c, t) == Bounds(c)[1] <= t /\ t <= Bounds(c)[2]

RangeGroup(c) == \A f \in files : f.group = c.group => f.mode # "exclusive_snapshot"

\* No activity is counted twice: two exports of one group whose rows are translated
\* cover no common instant (overlap components, selection.py:40-51).
NoActivityCountedTwice ==
    \A i, j \in DOMAIN translated :
        (i # j /\ translated[i].group = translated[j].group)
            => \A t \in 0..(Horizon + 1) :
                ~ (Covers(translated[i], t) /\ Covers(translated[j], t))

\* No activity is lost: when a capture is translated, every export of a range group is
\* contained in a translated one of its group that is no staler, or has the same bytes.
NoActivityLost ==
    stage = "translated" =>
        \A c \in describe_translation_inputs(files) :
            \E i \in DOMAIN translated :
                LET w == translated[i]
                IN  /\ w.group = c.group
                    /\ ~ Fresher(c, w) \/ c.fingerprint = w.fingerprint
                    /\ RangeGroup(c) => winner_contains_all_candidates(w, {c})

\* What is published is what is executed: the plan rebuilt from the persisted evidence set
\* agrees with the planner's on every decision, the order of translation and the verdict,
\* so the check on the rebuilt plan protects the execution of the other.
PublishedPlanIsExecuted ==
    stage \in {"published", "stopped", "translated"} => compat = plan

SelectedDocuments == { d \in DOMAIN collected : collected[d] = "selected" }

\* One balance per target: the selected statements never give two quantities for one
\* location, instrument, kind and date (source_evidence.py:113-170).
OneReferencePerTarget ==
    stage # "capture" =>
        \A r, q \in statement_references(SelectedDocuments) :
            <<r.location, r.asset, r.kind, r.asof>> = <<q.location, q.asset, q.kind, q.asof>>
                => r = q

\* the references for what row r is on
ReferencesFor(ds, r) ==
    { q \in statement_references(ds) :
        /\ q.location = statement_row_location(r) /\ q.asset = r.asset
        /\ q.kind = reference_balance_kind(r.kind) /\ q.asof = r.asof }

\* what a reference quotes: its document and the quantity
Quoted(qs) == { <<q.document, q.quantity>> : q \in qs }

\* The newest statement speaks, once: of all rows on a place, a kind, an asset and a date the
\* first of the document with the highest precedence is what the references say, to the
\* quantity, and where that row states nothing no other row, of its document or of an older
\* one, is quoted in its stead.
NewestStatementSpeaks ==
    stage # "capture" =>
        \A d \in SelectedDocuments :
            (\A e \in SelectedDocuments : ~ Precedes(e, d)) =>
                \A i \in DOMAIN d.rows :
                    FirstOfKey(d, i) =>
                        Quoted(ReferencesFor(SelectedDocuments, d.rows[i])) =
                            IF States(d.rows[i]) THEN {<<d.path, d.rows[i].qty>>} ELSE {}

\* A target has one reference, and the newest selected statement that names it gives it.
NewestStatementDecides == OneReferencePerTarget /\ NewestStatementSpeaks

=============================================================================
