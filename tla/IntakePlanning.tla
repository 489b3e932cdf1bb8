-------------------------- MODULE IntakePlanning --------------------------
(***************************************************************************)
(* Intake of an incoming folder (application/intake): every scanned file is *)
(* inspected, routed to a source by the adapters, relabelled by the         *)
(* operator's source map or by the location inventory, checked against the  *)
(* evidence already stored, and gathered with the others into a capture;    *)
(* then the packages of the capture (one per archive or folder) are         *)
(* deduplicated and merged, and the files are copied and recorded.          *)
(*                                                                          *)
(* What the code reads off names and bytes is data here: NameFacts says     *)
(* what a name shows (a date, an address, an adapter's hint...), Contents   *)
(* what a file holds.  Several intakes follow one another over one          *)
(* workspace, and an apply may die between any two of its writes.           *)
(***************************************************************************)
EXTENDS ArchiveScan

CONSTANTS
  Drops,        \* the incoming folders an operator may hand over
  NameFacts,    \* what each name shows
  Adapters,     \* adapters that can route, as ranks of their ids
  AdapterId,    \* rank -> id
  Locations,    \* location_inventory_evidence.csv: [id, source] records
  Inventory,    \* sources of source_inventory.csv at the start
  MaxRuns,      \* bound on intake commands
  Series        \* the drops that follow one another in one workspace (bound)

VARIABLES
  phase, drop, mode,
  items,        \* the planned rows
  session,      \* CaptureSessionPlan
  next,         \* row the copy loop is at
  store,        \* evidence and working files: [source, label, target, body]
  manifests,    \* rows of every manifest.csv
  registry,     \* rows of source_captures.csv
  inventory,    \* sources of source_inventory.csv
  summaries,    \* intake_summary.json of each report folder
  now, runs

planVars == <<phase, drop, mode, items, session, next, store, manifests, registry,
              inventory, summaries, now, runs>>
vars == <<scanVars, planVars>>

(* A folder lists every file once, and the files have contents.                *)
ASSUME DropsAssumption ==
  \A d \in Drops \cup Series :
    /\ d.files \in Seq(Range(d.files))
    /\ \A f \in Range(d.files) : f.body \in DOMAIN Contents
    /\ \A i, j \in DOMAIN d.files :
         d.files[i].path = d.files[j].path /\ d.files[i].ext = d.files[j].ext => i = j

ASSUME RunsAssumption == MaxRuns \in Nat

(* The rows of a file carry finitely many times.                               *)
ASSUME TimesAssumption ==
  \A c \in DOMAIN Contents : Contents[c].times \subseteq Nat /\ IsFiniteSet(Contents[c].times)

None == "none"

-----------------------------------------------------------------------------
(* What one scanned file shows.                                             *)

MemberPath(f) == Last(f.path)          \* archive_member_path or relative_path
InArchive(f) == Len(f.path) > 1
Names(f) == UNION {Range(f.path[k]) : k \in DOMAIN f.path}
Folders(f) == {MemberPath(f)[k] : k \in 1 .. Len(MemberPath(f)) - 1}
                \cup UNION {Range(f.path[k]) : k \in 1 .. Len(f.path) - 1}
BaseName(f) == Last(MemberPath(f))

(* write_extracted_file names an extracted file after its digest: identical   *)
(* members of two archives are one file on disk.                              *)
source_path(f) == [f EXCEPT !.path = IF InArchive(f) THEN <<>> ELSE @]

PathTokens(f) == UNION {NameFacts[n].tokens : n \in Range(MemberPath(f))}
IsLabel(token) == token \in {"label:a", "label:b"}
Identifiers(tokens) == {t \in tokens : ~IsLabel(t)}
Single(tokens) == IF Cardinality(tokens) = 1 THEN tokens ELSE {}

scope_tokens(f) ==
  PathTokens(f) \cup
    (IF f.ext # "csv" THEN {}
     ELSE UNION Range(Contents[f.body].rows) \cup Contents[f.body].title)

(* The address a file is about: the one every row names, or of those the one  *)
(* the path or the title names, or the one of the path or the title that some *)
(* row names.                                                                 *)
select_routing_tokens(common, path, title) ==
  IF Cardinality(common) = 1 THEN common
  ELSE IF Single(path \cap common) # {} THEN path \cap common
  ELSE Single(title \cap common)

routing_scope_tokens(f) ==
  LET path == Identifiers(PathTokens(f))
      title == IF f.ext = "csv" THEN Identifiers(Contents[f.body].title) ELSE {}
      rows == IF f.ext = "csv"
              THEN {Identifiers(r) : r \in Range(Contents[f.body].rows)} \ {{}} ELSE {}
      named == UNION rows
      common == {t \in named : \A r \in rows : t \in r}
      chosen == select_routing_tokens(common, path, title) IN
  IF rows = {} THEN IF Single(path) # {} THEN path ELSE Single(title)
  ELSE IF chosen # {} THEN chosen
  ELSE IF Single(path \cap named) # {} THEN path \cap named
  ELSE Single(title \cap named)

network_hints(f) ==
  LET shown == {NameFacts[n].network : n \in Range(MemberPath(f))} \ {None} IN
  IF shown # {} THEN CHOOSE n \in shown : TRUE
  ELSE IF f.ext = "csv" THEN Contents[f.body].network ELSE None

(* Timestamps are minutes, ten to a day. *)
Day(t) == t \div 10
Times(f) == IF f.ext = "csv" THEN Contents[f.body].times ELSE {}
observed_period(f) ==
  IF Times(f) = {} THEN [from |-> 0, to |-> 0]
  ELSE [from |-> Day(Min(Times(f))), to |-> Day(Max(Times(f)))]

inspect_intake_file(f) ==
  [scope |-> scope_tokens(f), routing |-> routing_scope_tokens(f),
   network |-> network_hints(f), times |-> Times(f), period |-> observed_period(f)]

-----------------------------------------------------------------------------
(* Routing.                                                                 *)

IsSidecar(f) == \E n \in Folders(f) : NameFacts[n].sidecar # 0

(* test.csv by name; the name of a member at the top of an archive is joined to *)
(* the archive's, "a.zip__test.csv", and does not count.                       *)
is_working_derivative(f) ==
  \/ f.ext = "xlsx"
  \/ NameFacts[BaseName(f)].scratch /\ (InArchive(f) => Len(MemberPath(f)) > 1)
RawSuffixes == {"csv", "zip", "pdf", "html", "json"}

match_intake(a, f) ==
  \/ \E n \in Names(f) : a \in NameFacts[n].hints
  \/ f.ext = "csv" /\ a \in Contents[f.body].header

matching_adapters(f) ==
  SetToSortSeq({a \in Adapters : match_intake(a, f)}, LAMBDA a, b : a > b)

detect_source_folder(f) ==
  LET ranked == matching_adapters(f) IN
  IF ranked = <<>> THEN "unclassified" ELSE AdapterId[ranked[1]]

Route(category, role, source, label) ==
  [category |-> category, role |-> role, source |-> source, label |-> label]
NoRoute == Route(None, None, None, 0)

(* cointracking/routing.py: saved reports and the files beside them go to the *)
(* portfolio tree, under the month the report names.                          *)
AsOf(f) == Contents[f.body].asof
sidecar_capture_label(f) ==
  LET page == {i \in DOMAIN files :
                 /\ files[i].ext = "html"
                 /\ \E n \in Folders(f) : NameFacts[n].sidecar = BaseName(files[i])} IN
  IF page = {} THEN 0 ELSE AsOf(files[CHOOSE i \in page : TRUE])

route_portfolio(f) ==
  IF f.ext \in {"html", "pdf"} THEN Route("portfolio_raw", "portfolio_export", "cointracking", AsOf(f))
  ELSE IF IsSidecar(f)
  THEN Route("portfolio_raw", "portfolio_sidecar", "cointracking", sidecar_capture_label(f))
  ELSE NoRoute

(* binance/routing.py: yearly workbooks and statements are raw evidence. *)
route_statement(f) ==
  IF NameFacts[BaseName(f)].statement /\ f.ext \in {"xlsx", "pdf"}
  THEN Route("source_raw", "source_export", "binance", 0) ELSE NoRoute

route_via_adapter(f) ==
  LET answers(a) == CASE AdapterId[a] = "cointracking" -> route_portfolio(f)
                      [] AdapterId[a] = "binance" -> route_statement(f)
                      [] OTHER -> NoRoute
      willing == SelectSeq(matching_adapters(f), LAMBDA a : answers(a) # NoRoute) IN
  IF willing = <<>> THEN NoRoute ELSE answers(willing[1])

route_intake_file(f) ==
  LET source == detect_source_folder(f) IN
  IF route_via_adapter(f) # NoRoute THEN route_via_adapter(f)
  ELSE IF is_working_derivative(f) THEN Route("supporting_artifact", "working_derivative", source, 0)
  ELSE IF IsSidecar(f) THEN Route("source_raw", "required_sidecar", source, 0)
  ELSE IF f.ext \in RawSuffixes THEN Route("source_raw", "source_export", source, 0)
  ELSE Route("supporting_artifact", "supporting_artifact", source, 0)

-----------------------------------------------------------------------------
(* The operator's source map and the location inventory.                    *)

(* load_source_label_context: a row is a rule, or an issue that blocks the    *)
(* rows its prefix names; a row whose scope or prefix is unreadable matches   *)
(* nothing.  Rows that disagree about one prefix are one conflict.            *)
RowIssue(r) == r.source = "" \/ r.source \notin inventory
load_source_label_context(rows) ==
  LET readable == {r \in Range(rows) : r.ok}
      valid == {r \in readable : ~RowIssue(r)}
      Clashes(r) == \E q \in valid :
        q.scope = r.scope /\ q.prefix = r.prefix /\ q.source # r.source IN
  [rules  |-> {r \in valid : ~Clashes(r)},
   issues |-> (readable \ valid) \cup {r \in valid : Clashes(r)},
   unread |-> Cardinality(Range(rows) \ readable)]

scope_matches(r, d) == r.scope = "" \/ r.scope = d.scope

prefix_matches(prefix, path) ==
  \/ prefix = <<>>
  \/ /\ Len(prefix) <= Len(path)
     /\ \A k \in 1 .. Len(prefix) - 1 : prefix[k] = path[k]
     /\ IsPrefix(Last(prefix), path[Len(prefix)])

PrefixLength(prefix) == FoldLeft(LAMBDA n, seg : n + Len(seg), 0, prefix)
rule_priority(r) == (IF r.scope = "" THEN 0 ELSE 100) + PrefixLength(r.prefix)

(* The most specific of the entries that match, no entry when none does. *)
BestMatch(rows, d, f) ==
  LET hits == {r \in rows : scope_matches(r, d) /\ prefix_matches(r.prefix, f.path)} IN
  {r \in hits : \A q \in hits : rule_priority(r) >= rule_priority(q)}

Resolution(source, status, blocked, review) ==
  [source |-> source, status |-> status, blocked |-> blocked, review |-> review]

(* inventory.py: an address the inventory knows under one source names the    *)
(* source, under several it is nobody's; a lone unknown address of a known    *)
(* network names a source of its own.                                         *)
resolve_inventory_route(source, facts) ==
  LET ids == Identifiers(IF facts.routing # {} THEN facts.routing ELSE facts.scope)
      owners == {l.source : l \in {x \in Locations : x.id \in ids}} IN
  IF ids = {} THEN Resolution(source, "unmatched", FALSE, {})
  ELSE IF inventory # {} /\ Cardinality(owners) = 1 /\ owners \subseteq inventory
  THEN Resolution(CHOOSE s \in owners : TRUE, "inventory_source_match", FALSE, {})
  ELSE IF inventory # {} /\ Cardinality(owners) > 1
  THEN Resolution("wallet-export-unassigned", "inventory_source_ambiguous", FALSE,
                  {"inventory_source_ambiguous"})
  ELSE IF Cardinality(ids) = 1 /\ facts.network # None
  THEN Resolution(CHOOSE i \in ids : TRUE, "generic_scope_routing", FALSE, {})
  ELSE Resolution(source, "unmatched", FALSE, {})

resolve_source_label(f, d, route, facts, context) ==
  LET issue == BestMatch(context.issues, d, f)
      rule == BestMatch(context.rules, d, f)
      Outranks(p, q) == \E r \in p : \A t \in q : rule_priority(r) >= rule_priority(t) IN
  IF route.category = "portfolio_raw" THEN Resolution(route.source, "routed_source", FALSE, {})
  ELSE IF Outranks(issue, rule)
  THEN Resolution(route.source, "explicit_map_blocked", TRUE, {"source_map"})
  ELSE IF rule # {} THEN Resolution((CHOOSE r \in rule : TRUE).source, "explicit_map", FALSE, {})
  ELSE IF d.incoming # "" /\ route.source = "unclassified"
  THEN Resolution(d.incoming, "incoming_source_scope", FALSE, {})
  ELSE resolve_inventory_route(route.source, facts)

-----------------------------------------------------------------------------
(* One planned row.                                                         *)

(* The last path component of the archive, without its suffix: of an archive  *)
(* at the top of another one, the component goes back across the "::".        *)
ArchiveStem(path) ==
  LET start == Min({k \in DOMAIN path : \A j \in k + 1 .. Len(path) : Len(path[j]) = 1}) IN
  [k \in 1 .. Len(path) - start + 1 |-> Last(path[start + k - 1])]

Loose == <<0>>
bundle_id(f) ==
  IF InArchive(f) THEN ArchiveStem(Front(f.path))
  ELSE IF f.ext = "zip" THEN <<BaseName(f)>>
  ELSE IF Len(MemberPath(f)) = 1 THEN Loose
  ELSE <<NameFacts[MemberPath(f)[Len(MemberPath(f)) - 1]].slug>>

bundle_relative_path(f) ==
  IF InArchive(f) THEN [area |-> "contents", path |-> MemberPath(f)]
  ELSE [area |-> IF f.ext = "zip" THEN "archive" ELSE "", path |-> <<BaseName(f)>>]

source_raw_target_path_without_bundle(source, label, bundle, place, ext) ==
  [source |-> source, label |-> label, bundle |-> <<>>, area |-> place.area,
   path |-> place.path, ext |-> ext]

source_raw_target_path(source, label, bundle, place, ext) ==
  [source |-> source, label |-> label, bundle |-> IF bundle = Loose THEN <<>> ELSE bundle,
   area |-> place.area, path |-> place.path, ext |-> ext]

(* Outside evidence/raw/source the target keeps the scanned path, under the   *)
(* month a report names and no capture label.                                 *)
OtherTarget(f, route, source) ==
  [source |-> IF route.category = "portfolio_raw" THEN "portfolio" ELSE "working",
   label |-> <<route.label>>, bundle |-> <<>>, area |-> source,
   path |-> IF route.role = "portfolio_export" THEN <<BaseName(f)>> ELSE FlattenSeq(f.path),
   ext |-> f.ext]

manifest_overlap(f) ==
  \E r \in manifests : r.body = f.body
     \/ (r.name = BaseName(f) /\ r.ext = f.ext /\ Contents[r.body].size = Contents[f.body].size)

Overlapping(a, b) == a # {} /\ b # {} /\ ~(Max(a) < Min(b) \/ Max(b) < Min(a))

capture_overlap(f, source) ==
  \E x \in store : /\ x.at.source = source
                   /\ x.at.ext = "csv" /\ Overlapping(Times(f), Contents[x.body].times)

resolve_overlap_review_by_dates(f, source) ==
  IF capture_overlap(f, source) THEN {"raw_capture_overlap"} ELSE {}

resolve_overlap_review(f, source) ==
  (IF manifest_overlap(f) THEN {"repo_manifest_overlap"} ELSE {})
    \cup (IF capture_overlap(f, source) THEN {"raw_capture_overlap"} ELSE {})

Markers(f, d) ==
  ({NameFacts[n].mark : n \in Names(f)} \cup (IF InArchive(f) THEN {} ELSE {d.mark})) \ {0}

build_planned_item(f, d, context) ==
  LET facts == inspect_intake_file(f)
      route == route_intake_file(f)
      label == resolve_source_label(f, d, route, facts, context)
      bundle == bundle_id(f)
      place == bundle_relative_path(f) IN
  [file |-> f, category |-> route.category, role |-> route.role, source |-> label.source,
   label |-> <<route.label, 0>>, status |-> "planned", bundle |-> bundle, place |-> place,
   period |-> facts.period, action |-> IF label.blocked THEN "skip" ELSE "copy",
   placement |-> IF label.blocked THEN "mapping_blocked_skip" ELSE "planned_copy",
   review |-> label.review \cup resolve_overlap_review(f, label.source),
   markers |-> Markers(f, d), scope |-> facts.scope,
   package |-> "primary", primary |-> bundle, related |-> {}, rowStatus |-> "package_keep",
   target |-> IF route.category = "source_raw"
              THEN source_raw_target_path(label.source, <<0, 0>>, bundle, place, f.ext)
              ELSE OtherTarget(f, route, label.source)]

-----------------------------------------------------------------------------
(* The capture the rows make up.                                            *)

IsRaw(i) == i.category = "source_raw"
Materializes(status) == status \notin {"capture_blocked", "duplicate_blocked"}

(* files: what the fingerprint is taken of (history, for CapturedOnce). *)
Session(source, label, raw, fingerprint, status, from, to) ==
  [source |-> source, label |-> label, files |-> {i.file : i \in raw},
   fingerprint |-> fingerprint, status |-> status, from |-> from, to |-> to]
capture_blocked_plan == Session("", <<0, 0>>, {}, {}, "capture_blocked", 0, 0)

manifest_fingerprint_with_review(raw) == {<<i.file, i.review>> : i \in raw}

manifest_fingerprint(raw) == {i.file : i \in raw}

(* The folder exists once a file is copied into it or its capture.json is written. *)
capture_label_exists(source, label) ==
  \/ \E x \in store : x.at.source = source /\ x.at.label = label
  \/ \E k \in DOMAIN registry : registry[k].source = source /\ registry[k].label = label

next_capture_label(source) ==
  CHOOSE l \in {<<now, k>> : k \in 0 .. MaxRuns} :
    /\ ~capture_label_exists(source, l)
    /\ \A k \in 0 .. l[2] - 1 : capture_label_exists(source, <<now, k>>)

(* A label planned earlier for the same files, and still free, is kept.       *)
planned_capture_label(d, source, fingerprint) ==
  LET s == summaries[d.report] IN
  IF s.fingerprint = fingerprint /\ s.source = source /\ s.label # <<0, 0>>
     /\ ~capture_label_exists(source, s.label)
  THEN s.label ELSE next_capture_label(source)

overlaps(from, to, row) ==
  from # 0 /\ row.from # 0 /\ ~(to < row.from \/ row.to < from)

mark_mixed_source_capture_blocked(rows) ==
  [k \in DOMAIN rows |->
     [rows[k] EXCEPT !.action = IF IsRaw(rows[k]) THEN "skip" ELSE @,
                     !.placement = IF IsRaw(rows[k]) /\ rows[k].action = "copy"
                                   THEN "mixed_source_capture_blocked" ELSE @,
                     !.status = "capture_blocked", !.review = @ \cup {"mixed_source_capture"}]]

mark_missing_source_raw_capture_blocked(rows) ==
  [k \in DOMAIN rows |-> [rows[k] EXCEPT !.status = "capture_blocked",
                            !.review = @ \cup {"missing_source_raw_capture"}]]

mark_non_materialized_capture_items(rows, status, placement) ==
  [k \in DOMAIN rows |->
     [rows[k] EXCEPT !.action = "skip", !.status = status,
                     !.placement = IF rows[k].action = "copy" THEN placement ELSE @]]

Relabelled(rows, label) ==
  [k \in DOMAIN rows |->
     IF IsRaw(rows[k]) THEN [rows[k] EXCEPT !.label = label] ELSE rows[k]]

build_capture_session_plan(rows, d) ==
  LET all == {rows[k] : k \in DOMAIN rows}
      raw == {i \in all : IsRaw(i) /\ i.action # "skip"}
      sources == {i.source : i \in raw}
      source == CHOOSE s \in sources : TRUE
      fingerprint == manifest_fingerprint(raw)
      label == planned_capture_label(d, source, fingerprint)
      dated == {i \in raw : i.period.from # 0}
      from == IF dated = {} THEN 0 ELSE Min({i.period.from : i \in dated})
      to == IF dated = {} THEN 0 ELSE Max({i.period.to : i \in dated})
      known == {k \in DOMAIN registry : registry[k].source = source}
      duplicate == \E k \in known : registry[k].fingerprint = fingerprint
      overlap == \E k \in known : overlaps(from, to, registry[k])
      status == IF duplicate THEN "duplicate_blocked"
                ELSE IF overlap THEN "overlap_review_required" ELSE "planned" IN
  IF Cardinality(sources) > 1
  THEN [rows |-> mark_mixed_source_capture_blocked(rows), plan |-> capture_blocked_plan]
  ELSE IF raw = {} /\ \E i \in all : IsRaw(i)
  THEN [rows |-> mark_non_materialized_capture_items(rows, "capture_blocked",
                                                     "capture_blocked_skip"),
        plan |-> capture_blocked_plan]
  ELSE IF raw = {}
  THEN [rows |-> mark_missing_source_raw_capture_blocked(rows), plan |-> capture_blocked_plan]
  ELSE [rows |-> IF duplicate
                 THEN mark_non_materialized_capture_items(Relabelled(rows, label),
                        "duplicate_blocked", "duplicate_capture_skip")
                 ELSE Relabelled(rows, label),
        plan |-> Session(source, label, raw, fingerprint, status, from, to)]

-----------------------------------------------------------------------------
(* Packages: the rows of one bundle.                                        *)

Bag(rows, indexes) ==
  [c \in DOMAIN Contents |-> Cardinality({k \in indexes : rows[k].file.body = c})]
counter_subset(a, b) == \A c \in DOMAIN a : a[c] <= b[c]
Shares(a, b) == \E c \in DOMAIN a : a[c] > 0 /\ b[c] > 0
JoinBags(a, b) == [c \in DOMAIN a |-> a[c] + b[c]]

logical_key(i) == <<i.place.path, i.file.ext>>

(* An archive stands for its contents when they are there. *)
material_indexes(rows, indexes) ==
  LET contents == {k \in indexes : rows[k].place.area # "archive"} IN
  IF contents # {} THEN contents ELSE indexes

build_package(rows, bundle, indexes) ==
  LET material == material_indexes(rows, indexes)
      latest == {Max(rows[k].markers) : k \in {j \in indexes : rows[j].markers # {}}}
      days == {Day(m) : m \in latest} IN
  [bundle |-> bundle, indexes |-> indexes, material |-> material,
   hashes |-> Bag(rows, material),
   logical |-> {<<logical_key(rows[k]), rows[k].file.body>> : k \in material},
   marker |-> IF latest = {} THEN -1 ELSE Max(latest),
   day |-> IF Cardinality(days) = 1 THEN CHOOSE x \in days : TRUE ELSE 0,
   mixed |-> Cardinality(days) > 1,
   scope |-> UNION {rows[k].scope : k \in indexes}]

NamesBefore(a, b) ==
  \/ Len(a) < Len(b) /\ \A k \in DOMAIN a : a[k] = b[k]
  \/ \E k \in DOMAIN a \cap DOMAIN b :
       a[k] < b[k] /\ \A j \in 1 .. k - 1 : a[j] = b[j]

(* package_sort_key, largest first: date, day, number of files, name. *)
package_order(p, q) ==
  \/ p.marker > q.marker
  \/ p.marker = q.marker /\ p.day > q.day
  \/ p.marker = q.marker /\ p.day = q.day
       /\ LET np == Cardinality(p.material) nq == Cardinality(q.material) IN
          np > nq \/ (np = nq /\ NamesBefore(q.bundle, p.bundle))

same_export_cycle(p, q) ==
  ~p.mixed /\ ~q.mixed /\ (p.day # 0 /\ q.day # 0 => p.day = q.day)

compatible_scope(p, q) ==
  LET ps == Identifiers(p.scope) qs == Identifiers(q.scope) IN
  IF ps # {} /\ qs # {} THEN ps \cap qs # {}
  ELSE IF p.scope # {} /\ q.scope # {} THEN p.scope \cap q.scope # {} ELSE TRUE

can_supersede(primary, candidate) ==
  /\ primary.marker # -1 /\ candidate.marker # -1
  /\ same_export_cycle(primary, candidate)
  /\ primary.marker > candidate.marker

apply_duplicate_decisions_of_any(ordered) ==
  LET Containers(k) == {j \in 1 .. k - 1 : Shares(ordered[k].hashes, ordered[j].hashes)} IN
  [k \in {x \in DOMAIN ordered : Containers(x) # {}} |-> Min(Containers(k))]

(* The packages that an earlier one in the order contains, each with the first *)
(* of the packages that contain it.                                            *)
apply_duplicate_decisions(ordered) ==
  LET Containers(k) == {j \in 1 .. k - 1 : counter_subset(ordered[k].hashes, ordered[j].hashes)} IN
  [k \in {x \in DOMAIN ordered : Containers(x) # {}} |-> Min(Containers(k))]

(* evaluate_merge of candidate q into the component c gathered round primary p. *)
evaluate_merge(rows, p, q, c) ==
  LET keys == {x[1] : x \in q.logical}
      existing(key) == {x[2] : x \in {y \in c.logical : y[1] = key}}
      extra(key) == {x[2] : x \in {y \in q.logical : y[1] = key}} \ existing(key)
      clash == {key \in keys : extra(key) # {} /\ existing(key) # {}}
      kept == {k \in q.material : logical_key(rows[k]) \notin clash}
      keptBag == Bag(rows, kept) IN
  [ok |-> /\ same_export_cycle(p, q) /\ compatible_scope(p, q)
          /\ Shares(q.hashes, c.hashes)
          /\ clash # {} => can_supersede(p, q)
          /\ ~counter_subset(keptBag, c.hashes),
   superseded |-> {k \in q.material : LET key == logical_key(rows[k]) IN
                     key \in clash /\ rows[k].file.body \in extra(key)},
   hashes |-> JoinBags(c.hashes, keptBag),
   logical |-> c.logical \cup {x \in q.logical : x[1] \notin clash}]

(* The two loops of apply_merge_decisions: every package not yet consumed      *)
(* gathers the later ones that merge into it.                                  *)
MergeInto(rows, ordered, remaining, state, p) ==
  LET Gather(c, q) ==
        LET e == evaluate_merge(rows, ordered[p], ordered[q], c) IN
        IF q \in c.consumed \/ ~e.ok THEN c
        ELSE [c EXCEPT !.consumed = @ \cup {q}, !.members = @ \cup {q},
                       !.superseded = @ \cup e.superseded,
                       !.hashes = e.hashes, !.logical = e.logical]
      c0 == [consumed |-> state.consumed \cup {p}, members |-> {},
             superseded |-> state.superseded,
             hashes |-> ordered[p].hashes, logical |-> ordered[p].logical]
      c == FoldLeft(Gather, c0, remaining) IN
  IF p \in state.consumed THEN state
  ELSE [consumed |-> c.consumed, superseded |-> c.superseded,
        into |-> state.into \cup {<<q, p>> : q \in c.members}]

apply_merge_decisions(rows, ordered, remaining) ==
  FoldLeft(LAMBDA s, p : MergeInto(rows, ordered, remaining, s, p),
           [consumed |-> {}, superseded |-> {}, into |-> {}], remaining)

overlapping_packages_of_later(ordered, plain, k) ==
  {j \in plain \ {k} : j > k /\ Shares(ordered[k].hashes, ordered[j].hashes)}

(* The other packages kept on their own that share a file with package k. *)
overlapping_packages(ordered, plain, k) ==
  {j \in plain \ {k} : Shares(ordered[k].hashes, ordered[j].hashes)}

(* resolve_group: duplicates, then merges, then what is left is a package of   *)
(* its own, for review when it mixes days or shares files with another one.    *)
package_decisions(ordered, duplicates, remaining, merge) ==
  LET members == {x[1] : x \in merge.into}
      primaries == {x[2] : x \in merge.into}
      alone == Range(remaining) \ (members \cup primaries)
      plain == {k \in alone : ~ordered[k].mixed}
      Overlaps(k) == overlapping_packages(ordered, plain, k)
      status(k) ==
        IF k \in DOMAIN duplicates
        THEN IF ordered[k].hashes = ordered[duplicates[k]].hashes
             THEN "duplicate_package_identical" ELSE "duplicate_package_subset"
        ELSE IF k \in primaries THEN "merge_primary"
        ELSE IF k \in members THEN "merge_member"
        ELSE IF ordered[k].mixed THEN "mixed_cycle_review"
        ELSE IF Overlaps(k) # {} THEN "overlap_partial_review" ELSE "primary"
      into(k) == IF k \in DOMAIN duplicates THEN duplicates[k]
                 ELSE IF k \in members THEN CHOOSE p \in primaries : <<k, p>> \in merge.into
                 ELSE k
      related(k) == IF k \in DOMAIN duplicates \cup members THEN {into(k)}
                    ELSE IF k \in primaries THEN {x[1] : x \in {y \in merge.into : y[2] = k}}
                    ELSE IF k \in plain THEN Overlaps(k) ELSE {} IN
  [k \in DOMAIN ordered |->
     [bundle |-> ordered[k].bundle, indexes |-> ordered[k].indexes, status |-> status(k),
      primary |-> ordered[into(k)].bundle,
      related |-> {ordered[j].bundle : j \in related(k)},
      superseded |-> merge.superseded]]

resolve_remaining(rows, ordered, duplicates) ==
  LET remaining == SelectSeq([k \in DOMAIN ordered |-> k], LAMBDA k : k \notin DOMAIN duplicates) IN
  package_decisions(ordered, duplicates, remaining,
                    apply_merge_decisions(rows, ordered, remaining))

resolve_group(rows, packages) ==
  LET ordered == SetToSortSeq(packages, package_order) IN
  resolve_remaining(rows, ordered, apply_duplicate_decisions(ordered))

IsDuplicate(status) == status \in {"duplicate_package_identical", "duplicate_package_subset"}

with_decision(row, k, x) ==
  LET skip == IF IsDuplicate(x.status) THEN "package_duplicate_skip"
              ELSE IF k \in x.superseded THEN "package_merge_superseded_skip" ELSE "" IN
  [row EXCEPT !.package = x.status, !.primary = x.primary, !.related = x.related,
              !.rowStatus = IF skip # "" THEN skip
                            ELSE IF x.status = "merge_member" THEN "package_merge_into_primary"
                            ELSE "package_keep",
              !.action = IF skip # "" THEN "skip" ELSE @,
              !.placement = IF skip # "" THEN skip ELSE @]

apply_package_rules(rows) ==
  LET Group(k) == <<rows[k].source, rows[k].label>>
      raw == {k \in DOMAIN rows : IsRaw(rows[k])}
      Packages(g) ==
        LET inGroup == {k \in raw : Group(k) = g} IN
        {build_package(rows, b, {k \in inGroup : rows[k].bundle = b}) :
           b \in {rows[k].bundle : k \in inGroup}}
      decided == UNION {Range(resolve_group(rows, Packages(g))) : g \in {Group(k) : k \in raw}} IN
  [k \in DOMAIN rows |->
     IF k \notin raw THEN rows[k]
     ELSE with_decision(rows[k], k, CHOOSE x \in decided : k \in x.indexes)]

(* apply_package_rules_to_items: the outcome goes back to the rows by source   *)
(* path, so that rows of identical archive members take the outcome of the     *)
(* last of them.                                                               *)
with_rules(row, t) ==
  LET bundle == IF t.rowStatus = "package_merge_into_primary" THEN t.primary ELSE row.bundle
      codes == CASE t.package = "overlap_partial_review" -> {"package_overlap_review"}
                 [] t.package = "mixed_cycle_review" -> {"package_cycle_mixed"}
                 [] OTHER -> {} IN
  [row EXCEPT !.package = t.package, !.primary = t.primary, !.related = t.related,
              !.rowStatus = t.rowStatus, !.action = t.action, !.placement = t.placement,
              !.bundle = bundle, !.review = @ \cup codes,
              !.target = IF IsRaw(row)
                THEN source_raw_target_path(row.source, row.label, bundle, row.place, row.file.ext)
                ELSE @]

(* A row takes the decision of the last row that has its path.                 *)
with_rules_of_path(rows, ruled) ==
  LET Twin(k) == Max({j \in DOMAIN rows : source_path(rows[j].file) = source_path(rows[k].file)}) IN
  [k \in DOMAIN rows |-> with_rules(rows[k], ruled[Twin(k)])]

apply_package_rules_to_items(rows) == with_rules_of_path(rows, apply_package_rules(rows))

-----------------------------------------------------------------------------
(* The commands: intake plan and intake apply.                              *)

NoSummary == [label |-> <<0, 0>>, fingerprint |-> {}, source |-> ""]
Reports == {d.report : d \in Drops}

Init ==
  /\ listing = <<>> /\ files = <<>> /\ issues = <<>> /\ stack = <<>> /\ opened = {}
  /\ budget = [members |-> 0, bytes |-> 0]
  /\ phase = "idle" /\ drop = (CHOOSE d \in Drops : TRUE) /\ mode = "plan"
  /\ items = <<>> /\ session = capture_blocked_plan /\ next = 1
  /\ store = {} /\ manifests = {} /\ registry = <<>> /\ inventory = Inventory
  /\ summaries = [r \in Reports |-> NoSummary]
  /\ now = 1 /\ runs = 0

workspaceVars == <<store, manifests, registry, inventory, summaries>>

(* A command starts; the clock may have moved since the last one. *)
Begin(d, m) ==
  /\ phase = "idle" /\ runs < MaxRuns
  /\ runs > 0 => drop \in Series
  /\ m = "plan" => d \in Series
  /\ phase' = "scan" /\ drop' = d /\ mode' = m /\ runs' = runs + 1
  /\ now' \in {now} \cup (IF runs = 0 THEN {} ELSE {now + 1})
  /\ BeginScan(d.files)
  /\ UNCHANGED <<items, session, next, workspaceVars>>

Scan ==
  /\ phase = "scan" /\ ScanStep
  /\ UNCHANGED planVars

(* build_planned_items: the rows, the session they make, the package rules. *)
Plan ==
  /\ phase = "scan" /\ ScanDone
  /\ LET context == load_source_label_context(drop.labels)
         rows == [k \in DOMAIN files |-> build_planned_item(files[k], drop, context)]
         built == build_capture_session_plan(rows, drop) IN
     /\ items' = apply_package_rules_to_items(built.rows)
     /\ session' = built.plan
  /\ next' = 1
  /\ phase' = IF mode = "plan" THEN "report" ELSE "copy"
  /\ UNCHANGED <<scanVars, drop, mode, workspaceVars, now, runs>>

(* The copy loop of apply, one row; shutil.copy2 replaces what is there. *)
Copied(i) == i.action = "copy" /\ (IsRaw(i) => Materializes(session.status))

CopyItem ==
  /\ phase = "copy" /\ next <= Len(items)
  /\ LET i == items[next] IN
     store' = IF Copied(i)
              THEN {x \in store : x.at # i.target} \cup {[at |-> i.target, body |-> i.file.body]}
              ELSE store
  /\ next' = next + 1
  /\ UNCHANGED <<scanVars, phase, drop, mode, items, session, manifests, registry,
                 inventory, summaries, now, runs>>

write_capture_manifests ==
  {[source |-> i.source, label |-> i.label, name |-> BaseName(i.file), ext |-> i.file.ext,
    body |-> i.file.body, at |-> i.target] :
     i \in {x \in Range(items) : IsRaw(x) /\ x.action # "skip"}}

WriteManifests ==
  /\ phase = "copy" /\ next > Len(items)
  /\ manifests' = IF Materializes(session.status)
                  THEN manifests \cup write_capture_manifests ELSE manifests
  /\ phase' = "record"
  /\ UNCHANGED <<scanVars, drop, mode, items, session, next, store, registry, inventory,
                 summaries, now, runs>>

(* capture.json and the registry row, for every session that has a source. *)
RecordCapture ==
  /\ phase = "record"
  /\ registry' = IF session.source = "" THEN registry
                 ELSE Append(registry,
                   [source |-> session.source, files |-> session.files,
                    fingerprint |-> session.fingerprint, from |-> session.from, to |-> session.to, status |-> session.status,
                    label |-> IF Materializes(session.status) THEN session.label ELSE <<0, 0>>])
  /\ phase' = "inventory"
  /\ UNCHANGED <<scanVars, drop, mode, items, session, next, store, manifests, inventory,
                 summaries, now, runs>>

(* update_source_inventory_summary: the source is a row of the inventory now. *)
UpdateInventory ==
  /\ phase = "inventory"
  /\ inventory' = inventory \cup ({session.source} \ {""})
  /\ phase' = "report"
  /\ UNCHANGED <<scanVars, drop, mode, items, session, next, store, manifests, registry,
                 summaries, now, runs>>

WriteReports ==
  /\ phase = "report"
  /\ summaries' = [summaries EXCEPT ![drop.report] =
                     [label |-> session.label, fingerprint |-> session.fingerprint,
                      source |-> session.source]]
  /\ phase' = "idle"
  /\ UNCHANGED <<scanVars, drop, mode, items, session, next, store, manifests, registry,
                 inventory, now, runs>>

Crash ==
  /\ phase \in {"copy", "record", "inventory", "report"}
  /\ phase' = "idle" /\ items' = <<>> /\ session' = capture_blocked_plan
  /\ UNCHANGED <<scanVars, drop, mode, next, workspaceVars, now, runs>>

Step == Scan \/ Plan \/ CopyItem \/ WriteManifests \/ RecordCapture \/ UpdateInventory
          \/ WriteReports

Next == Step \/ Crash \/ \E d \in IF runs = 0 THEN Drops ELSE Series, m \in {"plan", "apply"} : Begin(d, m)

Spec == Init /\ [][Next]_vars

-----------------------------------------------------------------------------
(* Properties.                                                              *)

(* What the steps of an apply hand on: the phase, the rows of the drop, the    *)
(* records they leave in the registry and the folders.                         *)
TypeOK ==
  /\ phase \in {"idle", "scan", "copy", "record", "inventory", "report"} /\ mode \in {"plan", "apply"}
  /\ runs \in 0 .. MaxRuns /\ now \in 1 .. MaxRuns + 1
  /\ Range(files) \subseteq [path : {f.path : f \in Range(files)},
                             ext : {"csv", "zip", "tar", "pdf", "html", "xlsx", "txt"},
                             body : DOMAIN Contents]
  /\ \A k \in DOMAIN items :
       /\ items[k].category \in {"source_raw", "portfolio_raw", "supporting_artifact"}
       /\ items[k].package \in {"primary", "duplicate_package_identical",
            "duplicate_package_subset", "merge_primary", "merge_member",
            "mixed_cycle_review", "overlap_partial_review"}
       /\ items[k].primary \in {bundle_id(items[j].file) : j \in DOMAIN items}
  /\ session.status \in {"planned", "overlap_review_required", "duplicate_blocked",
                          "capture_blocked"}

Stored(body) ==
  \E x \in store : x.at.source = session.source /\ x.at.label = session.label /\ x.body = body

(* A row whose extracted file is nobody else's, see apply_package_rules_to_items. *)
Untwinned(i) ==
  \A j \in Range(items) : source_path(j.file) = source_path(i.file) => j.file = i.file

(* The archives a scanned file came out of. *)
Enclosing(f) ==
  {g \in Range(files) : g.ext = "zip" /\ Len(g.path) < Len(f.path)
                         /\ \A k \in DOMAIN g.path : g.path[k] = f.path[k]}

Retrievable(body) ==
  \E g \in Range(files) : g.body = body /\ \E e \in Enclosing(g) \cup {g} : Stored(e.body)

HeldBack(body) ==
  \E j \in Range(items) : j.placement = "mapping_blocked_skip" /\ j.file.body = body

PackageMarker(i) ==
  LET rows == {j \in Range(items) : IsRaw(j) /\ j.source = i.source
                                     /\ bundle_id(j.file) = bundle_id(i.file)}
      marks == UNION {j.markers : j \in rows} IN
  IF marks = {} THEN -1 ELSE Max(marks)

(* A copied row of another package stands in for row i.                        *)
Superseding(i, j) ==
  /\ IsRaw(j) /\ j.action = "copy" /\ j.source = i.source
  /\ bundle_id(j.file) # bundle_id(i.file)
  /\ logical_key(j) = logical_key(i)
  /\ PackageMarker(j) >= PackageMarker(i)

(* Two files of one name in two folders of one name: bundle_id goes by the     *)
(* folder's name alone, so their rows share a package and a target, and the    *)
(* later copy replaces the earlier one (RawNeverOverwritten).                  *)
SameName(i, j) ==
  /\ bundle_id(i.file) = bundle_id(j.file) /\ logical_key(i) = logical_key(j)
  /\ i.file.path # j.file.path

(* When an apply that makes a capture has copied its rows, no raw evidence of  *)
(* the drop is gone.  The bytes of a copied row are in the capture, or in an   *)
(* archive that is, unless a file of the same name in a folder of the same     *)
(* name was copied over them; those of a row that was not copied are too, or a *)
(* copied row of the same name from another package at least as recent stands  *)
(* in for them, or a row that the source map holds back for review has them    *)
(* (apply_duplicate_decisions and apply_merge_decisions decide on packages,    *)
(* the copy loop on rows and targets).                                         *)
ContentKept ==
  phase = "record" /\ Materializes(session.status) =>
    \A i \in Range(items) : IsRaw(i) =>
      \/ Retrievable(i.file.body)
      \/ Copied(i) /\ \E j \in Range(items) : Copied(j) /\ SameName(i, j)
      \/ ~Copied(i) /\ \E j \in Range(items) : Superseding(i, j)
      \/ HeldBack(i.file.body)
      \/ /\ i.file.ext = "zip"
         /\ \E j \in Range(items) : i.file \in Enclosing(j.file)
         /\ \A j \in Range(items) : i.file \in Enclosing(j.file) =>
              Retrievable(j.file.body) \/ HeldBack(j.file.body)

(* A row dropped by a merge gives way to a copied row of the same name from a  *)
(* package that is at least as recent, never to an older export.               *)
NewerSupersedes ==
  phase = "copy" =>
    \A i \in Range(items) : i.placement = "package_merge_superseded_skip" /\ Untwinned(i) =>
      \E j \in Range(items) : Superseding(i, j)

(* Two packages that are both kept on their own and share a file are both up   *)
(* for review, unless one of them is the primary of a merge: the shared        *)
(* activity is not counted twice unseen (reviews.py).                          *)
SharedFilesReviewed ==
  phase = "copy" =>
    \A i, j \in Range(items) :
      /\ IsRaw(i) /\ IsRaw(j) /\ i.source = j.source /\ i.file.body = j.file.body
      /\ i.package \in {"primary", "overlap_partial_review"}
      /\ j.package \in {"primary", "overlap_partial_review"}
      /\ i.place.area # "archive" /\ j.place.area # "archive" /\ Untwinned(i) /\ Untwinned(j)
      /\ bundle_id(i.file) # bundle_id(j.file)
      => /\ "package_overlap_review" \in i.review /\ "package_overlap_review" \in j.review
         /\ bundle_id(j.file) \in i.related

(* What the package rules decide: nothing of a drop is given up for something  *)
(* older or for nothing, and what is kept twice is up for review.              *)
PackagesSettled == ContentKept /\ NewerSupersedes /\ SharedFilesReviewed

(* Bytes that an earlier capture already lists, or activity that a file of the *)
(* same source already covers, listed or left behind by a run that died, are   *)
(* never copied again without a review code on the row: what an apply sets out *)
(* to copy is held against what was there before it (overlap.py).              *)
RecaptureReviewed ==
  phase = "copy" /\ next = 1 =>
    \A i \in Range(items) : Copied(i) /\ IsRaw(i) =>
      /\ (\E r \in manifests : r.body = i.file.body) => i.review # {}
      /\ (\E x \in store : /\ x.at.source = i.source
                           /\ x.body = i.file.body /\ x.at.ext = i.file.ext
                           /\ Times(i.file) # {})
            => i.review # {}

(* Every capture gets a folder of its own: an apply starts copying into a      *)
(* folder that no earlier run, finished or dead, has written to.               *)
OwnFolder ==
  phase = "copy" /\ next = 1 /\ Materializes(session.status) =>
    ~capture_label_exists(session.source, session.label)

(* The same files are never made a capture of one source twice, however often  *)
(* and however relabelled they are handed over.                                *)
CapturedOnce ==
  \A j, k \in DOMAIN registry :
    /\ j < k /\ Materializes(registry[j].status) /\ Materializes(registry[k].status)
    /\ registry[j].source = registry[k].source
    => registry[j].files # registry[k].files

(* One capture per run: every raw row that is copied goes to the folder of the *)
(* run's capture, unless it shares its extracted file with another row         *)
(* (HeldBackIsSkipped says what goes wrong then).                              *)
OneCapturePerRun ==
  phase = "copy" =>
    \A i \in Range(items) : IsRaw(i) /\ Copied(i) =>
      /\ i.target.label = session.label
      /\ Untwinned(i) => i.target.source = session.source

(* Captures stay apart: a drop makes one capture, in a folder of its own, once.*)
CapturesApart == OwnFolder /\ CapturedOnce /\ OneCapturePerRun

(* Raw evidence keeps its bytes once it is stored ("never overwrite raw        *)
(* files"): every line of a capture's manifest names a file that holds the     *)
(* bytes the line says.                                                        *)
RawNeverOverwritten == \A r \in manifests : [at |-> r.at, body |-> r.body] \in store

(* A row that the source map holds back is skipped: "skips the affected rows   *)
(* instead of silently falling back" (the description of source_label_map.csv). *)
HeldBackIsSkipped ==
  phase = "copy" => \A i \in Range(items) : "source_map" \in i.review => i.action = "skip"

(* The rows of a package found to be a duplicate are not copied.               *)
DuplicatesSkipped ==
  phase = "copy" =>
    \A i, z \in Range(items) :
      /\ IsRaw(z) /\ z.place.area = "archive" /\ IsDuplicate(z.package)
      /\ InArchive(i.file) /\ z.file \in Enclosing(i.file) /\ i.source = z.source
      => i.action = "skip"
=============================================================================
