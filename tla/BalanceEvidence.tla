-------------------------- MODULE BalanceEvidence --------------------------
(***************************************************************************)
(* Balance evidence of the assembled sources, and the three commands that  *)
(* judge it: reconciliation balances inspect, check and summarize.         *)
(*                                                                         *)
(* Each source directory holds facts.csv, balance_snapshots.csv and        *)
(* balance_references.csv.  `source assemble` rewrites all three,          *)
(* `checkpoint submit-balances` the last two, and a check rewrites the     *)
(* references it read, with what a provider added.  The outputs of the     *)
(* three commands share one folder, analysis/reconciliation.               *)
(*                                                                         *)
(* A target says which balance (position, balance kind) at which instant,  *)
(* with the precision it was written with; targets match by instant, not   *)
(* by precision.  Commands run one at a time; files are written in place,  *)
(* so a crash may leave the file being written torn.  Cross-source         *)
(* sidecars are write-only and left out.                                   *)
(***************************************************************************)
EXTENDS Integers, FiniteSetsExt

CONSTANTS
  Sources,
  Day,          \* instants in a day; day 0 stands for "no date"
  Datasets,     \* what assembling a source's captures may yield
  Packages,     \* manual submission packages
  AsOfs,        \* --as-of values: an instant, or the midnight of a date
  ProviderAnswers, \* what a provider may answer: a reference's quantity, or an issue
  MayAnswer(_, _), \* whether it may answer that for a target
  NoFile,       \* a report that is not there
  NoAsOf,       \* no --as-of option
  MaxChanges,   \* bound on assemble and submit commands
  MaxChecks,    \* bound on check commands
  MaxCrashes

ASSUME DayIsPositive == Day \in Nat \ {0}
(* The rows of one file are finitely many; instants and quantities are     *)
(* numbers.  Captures yield references of statements only                  *)
(* (statement_extraction/source_evidence.py,                               *)
(* evm_explorer/portfolio_evidence.py).                                    *)
ASSUME EvidenceShape ==
  /\ \A d \in Datasets :
       /\ IsFiniteSet(d.facts) /\ IsFiniteSet(d.snaps) /\ IsFiniteSet(d.refs)
       /\ \A l \in d.facts : l.at \in Int
       /\ \A x \in d.snaps : x.t.at \in Int
       /\ \A r \in d.refs : r.kind = "source_document" /\ r.qty \in Int /\ r.t.at \in Int
  /\ \A p \in Packages :
       /\ IsFiniteSet(p.snaps) /\ IsFiniteSet(p.refs)
       /\ \A x \in p.snaps : x.t.at \in Int
       /\ \A r \in p.refs : r.qty \in Int /\ r.t.at \in Int
  /\ \A a \in ProviderAnswers : a.what = "reference" => a.qty \in Int
  /\ \A asOf \in AsOfs : asOf.at \in Int
ASSUME BalanceBounds == MaxChanges \in Nat /\ MaxChecks \in Nat /\ MaxCrashes \in Nat

Precedence == << "source_document", "network_api", "operator_assertion" >>

(* A reference is [t, kind, support, qty]: support stands for observed_at, *)
(* its precision and support_ref.  A snapshot is [t, qty], a fact leg      *)
(* [id, pos, at, qty].                                                     *)
MatchKey(t) == << t.pos, t.bal, t.at >>
(* Mutant: the cached reference is the latest of the position.             *)
CacheKeyOfPosition(r) == << r.t.pos, r.t.bal, r.kind, r.support >>

CacheKey(r) == << r.t, r.kind, r.support >>
DayOf(at) == at \div Day

RowsAt(rows, m) == {x \in rows : MatchKey(x.t) = m}
MatchKeys(rows) == {MatchKey(x.t) : x \in rows}

(* A file of rows: written, missing, or one that reading raises on. *)
File(rows) == [state |-> "written", rows |-> rows]
Absent == [state |-> "missing", rows |-> {}]
Unreadable == [state |-> "unreadable", rows |-> {}]
Rows(f) == f.rows

-----------------------------------------------------------------------------
(* What a check compares.                                                  *)

(* Legs of the position up to and including the target's instant. *)
Balance(legs, t) ==
  MapThenSumSet(LAMBDA l : l.qty, {l \in legs : l.pos = t.pos /\ l.at <= t.at})

InputMode(i) ==
  IF i.facts # {} THEN "fact_backed" ELSE IF i.explicit THEN "manual_only" ELSE "empty"

InScope(targets, asOf) ==
  IF asOf = NoAsOf THEN targets
  ELSE {t \in targets : IF asOf.date THEN DayOf(t.at) = DayOf(asOf.at) ELSE t.at = asOf.at}

(* Without references: each position at its last leg, or as of the request. *)
FactTargets(legs, asOf) ==
  {[pos |-> p, bal |-> "available", prec |-> "timestamp",
    at |-> IF asOf = NoAsOf THEN Max({l.at : l \in {k \in legs : k.pos = p}}) ELSE asOf.at]
     : p \in {l.pos : l \in legs}}

Covered(legs, t) == \E l \in legs : l.pos = t.pos /\ l.at <= t.at

Stop(status) == [status |-> status, snaps |-> {}, gaps |-> {}]

(* The snapshots a check compares, one row per planned target.  One        *)
(* reference is enough to make the references the targets of a fact-backed *)
(* source.                                                                 *)
CheckPlan(i, req) ==
  LET referenced == InScope({r.t : r \in i.refs}, req.asOf)
      targets == IF referenced # {} THEN referenced ELSE FactTargets(i.facts, req.asOf)
      explicit == {x \in i.snaps : req.asOf = NoAsOf \/ x.t.at = req.asOf.at}
  IN  CASE ~req.valid -> Stop("failed")
        [] req.valid /\ InputMode(i) = "empty" -> Stop("not_runnable")
        [] req.valid /\ InputMode(i) = "fact_backed" ->
             [status |-> "runs",
              snaps  |-> {[t |-> t, qty |-> Balance(i.facts, t)] : t \in targets},
              gaps   |-> {t \in referenced : ~Covered(i.facts, t)}]
        [] req.valid /\ InputMode(i) = "manual_only" ->
             IF explicit = {} /\ req.asOf # NoAsOf THEN Stop("no_balance_targets")
             ELSE [status |-> "runs", snaps |-> explicit, gaps |-> {}]

(* Planned targets no reference matches, and the references found for them. *)
Missing(plan, refs) ==
  {x.t : x \in {y \in plan.snaps : RowsAt(refs, MatchKey(y.t)) = {}}}

Hydrated(answers) ==
  {[t |-> t, kind |-> "network_api", support |-> "provider", qty |-> answers[t].qty]
     : t \in {u \in DOMAIN answers : answers[u].what = "reference"}}
Offline == [what |-> "missing_balance_reference"]

(* How often a reference kind was matched for one instant: the resolver    *)
(* adds the matching references once for every planned row.                *)
Count(plan, refs, answers, m, kind) ==
  IF RowsAt(refs, m) # {}
  THEN Cardinality(RowsAt(plan.snaps, m)) * Cardinality({r \in RowsAt(refs, m) : r.kind = kind})
  ELSE Cardinality({x \in RowsAt(plan.snaps, m) :
                      \E r \in Hydrated(answers) : r.t = x.t /\ r.kind = kind})

(* The first of several rows of one instant, in file order. *)
FirstRow(rows) ==
  CHOOSE x \in rows : \A y \in rows \ {x} :
    IF x.t.prec = y.t.prec THEN x.qty <= y.qty ELSE x.t.prec = "date"

AssertionStatus(plan, refs, answers, m) ==
  LET n(k) == Count(plan, refs, answers, m, Precedence[k])
      found == {k \in DOMAIN Precedence : n(k) > 0}
      selected == CHOOSE r \in RowsAt(refs \cup Hydrated(answers), m) :
                    r.kind = Precedence[Min(found)]
  IN  IF found = {} THEN "missing_reference"
      ELSE IF n(Min(found)) > 1 THEN "reference_conflict"
      ELSE IF FirstRow(RowsAt(plan.snaps, m)).qty # selected.qty THEN "drift"
      ELSE "matched"

Assertions(plan, refs, answers) ==
  [m \in MatchKeys(plan.snaps) |-> AssertionStatus(plan, refs, answers, m)]

(* Mutant: the resolver's issues reach its own file only.                  *)
IssueKindsOfAssertions(plan, refs, answers) ==
  LET rows == Assertions(plan, refs, answers)
  IN  {"missing_fact_coverage" : t \in plan.gaps}
      \cup ({rows[m] : m \in DOMAIN rows} \ {"matched", "missing_reference"})

(* A missing reference is reported by the resolver, not by the assertion. *)
IssueKinds(plan, refs, answers) ==
  LET rows == Assertions(plan, refs, answers)
  IN  ({answers[t].what : t \in DOMAIN answers} \ {"reference"})
      \cup {"missing_fact_coverage" : t \in plan.gaps}
      \cup {"duplicate_balance_snapshot" :
              m \in {k \in DOMAIN rows : Cardinality(RowsAt(plan.snaps, k)) > 1}}
      \cup ({rows[m] : m \in DOMAIN rows} \ {"matched", "missing_reference"})

LatestDay(rows) ==
  LET days == {DayOf(m[3]) : m \in {k \in DOMAIN rows : rows[k] = "matched"}}
  IN  IF days = {} THEN 0 ELSE Max(days)

Record(plan, refs, answers, hydrate) ==
  LET kinds == IssueKinds(plan, refs, answers)
      day   == LatestDay(Assertions(plan, refs, answers))
      runs  == plan.status = "runs"
  IN  [mode |-> IF hydrate THEN "hydrated" ELSE "offline",
       status |-> IF ~runs THEN plan.status ELSE IF kinds = {} THEN "clean" ELSE "issues",
       kinds |-> IF runs THEN kinds ELSE {},
       cleanDate |-> IF runs /\ kinds = {} THEN day ELSE 0,
       resolvedDate |-> IF runs THEN day ELSE 0]

(* The reference file after a check: the rows read, then the rows resolved, *)
(* the last one of a cache key kept.  Rows are read in row order, in which  *)
(* the quantity follows the target, so the largest of them is the last.     *)
PersistedReferences(existing, matched, hydrated) ==
  LET rows == existing \cup matched
  IN  {r \in rows : \A q \in rows : CacheKey(q) = CacheKey(r) => q.qty <= r.qty}
      \cup hydrated

-----------------------------------------------------------------------------
(* Submission packages and the portfolio answer.                           *)

UniqueTargets(rows) == \A x, y \in rows : x.t = y.t => x = y

(* Missing or malformed files, a duplicate, a kind other than               *)
(* operator_assertion, or rows without their counterpart block a package.  *)
Blocked(p) ==
  \/ ~p.wellFormed
  \/ ~UniqueTargets(p.snaps) \/ ~UniqueTargets(p.refs)
  \/ \E r \in p.refs : r.kind # "operator_assertion"
  \/ {[t |-> r.t, qty |-> r.qty] : r \in p.refs} # p.snaps

(* Mutant: one matched target is enough.                                   *)
OfflineReadyAny(i) ==
  LET targets == {x.t : x \in CheckPlan(i, [asOf |-> NoAsOf, valid |-> TRUE]).snaps}
  IN  IF InputMode(i) = "empty" THEN "no_balance_inputs"
      ELSE IF targets = {} THEN "no_balance_targets"
      ELSE IF \A t \in targets, r \in i.refs : r.t # t THEN "missing_references"
      ELSE "ready"

(* Inspect compares targets with their precision. *)
OfflineReady(i) ==
  LET targets == {x.t : x \in CheckPlan(i, [asOf |-> NoAsOf, valid |-> TRUE]).snaps}
  IN  IF InputMode(i) = "empty" THEN "no_balance_inputs"
      ELSE IF targets = {} THEN "no_balance_targets"
      ELSE IF \E t \in targets : \A r \in i.refs : r.t # t THEN "missing_references"
      ELSE "ready"

(* Mutant: a source without a check is passed over.                        *)
PortfolioDateOfChecked(ready, records, date) ==
  LET checked == DOMAIN ready \cap DOMAIN records
      answered == /\ \A s \in DOMAIN ready : ready[s] = "ready"
                  /\ \A s \in checked : records[s].status = "clean" /\ records[s][date] > 0
  IN  IF checked # {} /\ answered THEN Min({records[s][date] : s \in checked}) ELSE 0

(* The earliest date of all sources, if every inspected source is ready    *)
(* and its check is clean with a date.                                     *)
PortfolioDate(ready, records, date) ==
  LET answered == \A s \in DOMAIN ready :
                    /\ ready[s] = "ready"
                    /\ s \in DOMAIN records /\ records[s].status = "clean"
                    /\ records[s][date] > 0
  IN  IF DOMAIN ready # {} /\ answered THEN Min({records[s][date] : s \in DOMAIN ready}) ELSE 0

BlockersOf(ready, checks) ==
  {<< s, ready[s] >> : s \in {z \in DOMAIN ready : ready[z] # "ready"}}
  \cup {<< s, checks[s].status >> :
          s \in {z \in DOMAIN checks : checks[z].status \in {"failed", "no_balance_targets"}}}
  \cup {<< s, "no_balance_inputs" >> :
          s \in {z \in DOMAIN checks : checks[z].status = "not_runnable"}}
  \cup {<< s, "unsupported_hydration" >> :
          s \in {z \in DOMAIN checks : checks[z].status = "issues" /\ checks[z].mode = "hydrated"
                                       /\ "unsupported_balance_provider" \in checks[z].kinds}}

-----------------------------------------------------------------------------

VARIABLES
  facts, snaps, refs, \* the three files of each source
  refIssues,    \* whether balance_reference_issues.csv exists
  outputs,      \* each source's assertion and issue files
  checkSummary, \* balance_check_summary.csv
  inspection,   \* balance_inspect.csv
  portfolio,    \* balance_reconciliation_summary.json
  blockers,     \* balance_reconciliation_blockers.csv
  cmd,          \* the running command
  changes, checks, crashes, \* counts of commands and crashes
  stale         \* history: reports older than the last change of a source

dataset == << facts, snaps, refs, refIssues >>
reports == << outputs, checkSummary, inspection, portfolio, blockers >>
vars == << dataset, reports, cmd, changes, checks, crashes, stale >>

Idle == [op |-> "idle"]

Inputs(s) ==
  [facts |-> Rows(facts[s]), explicit |-> snaps[s] # Absent,
   snaps |-> IF Rows(facts[s]) = {} THEN Rows(snaps[s]) ELSE {}, refs |-> Rows(refs[s])]

(* Explicit snapshot rows are read only when there are no facts. *)
Raises(s) ==
  \/ facts[s] = Unreadable \/ refs[s] = Unreadable
  \/ Rows(facts[s]) = {} /\ snaps[s] = Unreadable

Discovered ==
  {s \in Sources : facts[s] # Absent \/ snaps[s] # Absent \/ refs[s] # Absent \/ refIssues[s]}

Changed == stale' = {"inspection", "check"}

-----------------------------------------------------------------------------
(* Commands that write the evidence.                                       *)

StartAssemble(s) ==
  \E d \in Datasets :
    /\ cmd = Idle /\ changes < MaxChanges
    /\ cmd' = [op |-> "assemble", src |-> s, data |-> d, step |-> "facts"]
    /\ facts' = [facts EXCEPT ![s] = Absent]
    /\ snaps' = [snaps EXCEPT ![s] = Absent]
    /\ refs' = [refs EXCEPT ![s] = Absent]
    /\ refIssues' = [refIssues EXCEPT ![s] = FALSE]
    /\ changes' = changes + 1
    /\ Changed
    /\ UNCHANGED << reports, checks, crashes >>

AssembleFacts ==
  /\ cmd.op = "assemble" /\ cmd.step = "facts"
  /\ facts' = [facts EXCEPT ![cmd.src] = File(cmd.data.facts)]
  /\ cmd' = [cmd EXCEPT !.step = "snaps"]
  /\ UNCHANGED << snaps, refs, refIssues, reports, changes, checks, crashes, stale >>

WriteSnapshots ==
  /\ cmd.op \in {"assemble", "submit"} /\ cmd.step = "snaps"
  /\ snaps' = [snaps EXCEPT ![cmd.src] = File(cmd.data.snaps)]
  /\ cmd' = [cmd EXCEPT !.step = "refs"]
  /\ UNCHANGED << facts, refs, refIssues, reports, changes, checks, crashes, stale >>

WriteReferences ==
  /\ cmd.op \in {"assemble", "submit"} /\ cmd.step = "refs"
  /\ refs' = [refs EXCEPT ![cmd.src] = File(cmd.data.refs)]
  /\ refIssues' = [refIssues EXCEPT ![cmd.src] =
                     IF cmd.op = "assemble" THEN cmd.data.issues ELSE @]
  /\ cmd' = [cmd EXCEPT !.step = "end"]
  /\ UNCHANGED << facts, snaps, reports, changes, checks, crashes, stale >>

(* Submitting clears the generated outputs, a blocked package's too, before *)
(* it reads the existing rows to merge with: it finds none.                 *)
ClearBalanceOutputs(s) ==
  /\ snaps' = [snaps EXCEPT ![s] = Absent]
  /\ refs' = [refs EXCEPT ![s] = Absent]

StartSubmit(s) ==
  \E p \in Packages :
    /\ cmd = Idle /\ changes < MaxChanges
    /\ ClearBalanceOutputs(s)
    /\ cmd' = [op |-> "submit", src |-> s, data |-> p, before |-> refs[s],
               step |-> IF Blocked(p) THEN "end" ELSE "snaps"]
    /\ changes' = changes + 1
    /\ Changed
    /\ UNCHANGED << facts, refIssues, reports, checks, crashes >>

EndCommand ==
  /\ cmd.op \in {"assemble", "submit"} /\ cmd.step = "end"
  /\ cmd' = Idle
  /\ UNCHANGED << dataset, reports, changes, checks, crashes, stale >>

-----------------------------------------------------------------------------
(* Commands that judge it.                                                 *)

(* Mutants: the old summary, or the old answer, is left until rewritten.    *)
ClearAnswerOnly == checkSummary' = checkSummary /\ portfolio' = NoFile
ClearSummaryOnly == checkSummary' = NoFile /\ portfolio' = portfolio

(* The shared folder is cleared first, the portfolio answer with it but not *)
(* its blockers; then all selected sources are read, and one that cannot be *)
(* read or is not there ends the command.                                   *)
ClearCheckOutputs == checkSummary' = NoFile /\ portfolio' = NoFile

StartCheck ==
  \E selected \in SUBSET Sources, asOf \in AsOfs \cup {NoAsOf}, hydrate, valid \in BOOLEAN :
    LET read == IF selected = {} THEN Discovered ELSE selected
        opens == read \subseteq Discovered /\ \A s \in read : ~Raises(s)
    IN  /\ cmd = Idle /\ checks < MaxChecks
        /\ ClearCheckOutputs
        /\ checks' = checks + 1
        /\ cmd' = IF ~opens THEN Idle
                  ELSE [op |-> "check", left |-> read, step |-> "clear", answers |-> << >>,
                        records |-> << >>,
                        req |-> [asOf |-> asOf, hydrate |-> hydrate, valid |-> valid]]
        /\ stale' = stale \ {"check"}
        /\ UNCHANGED << dataset, outputs, inspection, blockers, changes, crashes >>

(* Sources are checked in one fixed order. *)
Checked == CHOOSE s \in cmd.left : TRUE

WithRecord(records, s, rec) ==
  [z \in DOMAIN records \cup {s} |-> IF z = s THEN rec ELSE records[z]]

(* A source whose plan does not run is not resolved, and its references    *)
(* stay as they are.                                                       *)
ClearSource ==
  LET plan == CheckPlan(Inputs(Checked), cmd.req)
  IN  /\ cmd.op = "check" /\ cmd.step = "clear" /\ cmd.left # {}
      /\ outputs' = [outputs EXCEPT ![Checked] = NoFile]
      /\ refIssues' = [refIssues EXCEPT ![Checked] = FALSE]
      /\ cmd' = IF plan.status = "runs" THEN [cmd EXCEPT !.step = "resolve"]
                ELSE [cmd EXCEPT !.step = "outputs", !.records =
                        WithRecord(@, Checked, Record(plan, {}, << >>, cmd.req.hydrate))]
      /\ UNCHANGED << facts, snaps, refs, checkSummary, inspection, portfolio, blockers,
                      changes, checks, crashes, stale >>

(* Every unresolved target has one answer: offline it is missing. *)
Resolve ==
  LET i == Inputs(Checked)
      plan == CheckPlan(i, cmd.req)
      missing == Missing(plan, i.refs)
      may(t) == IF cmd.req.hydrate THEN {a \in ProviderAnswers : MayAnswer(t, a)} ELSE {Offline}
  IN  /\ cmd.op = "check" /\ cmd.step = "resolve"
      /\ \E answers \in [missing -> ProviderAnswers \cup {Offline}] :
           /\ \A t \in missing : answers[t] \in may(t)
           /\ cmd' = [cmd EXCEPT !.step = "persist", !.answers = answers, !.records =
                        WithRecord(@, Checked, Record(plan, i.refs, answers, cmd.req.hydrate))]
      /\ UNCHANGED << dataset, reports, changes, checks, crashes, stale >>

NewReferences ==
  LET i == Inputs(Checked)
      planned == MatchKeys(CheckPlan(i, cmd.req).snaps)
  IN  PersistedReferences(i.refs, {r \in i.refs : MatchKey(r.t) \in planned},
                          Hydrated(cmd.answers))

PersistReferences ==
  /\ cmd.op = "check" /\ cmd.step = "persist"
  /\ refs' = [refs EXCEPT ![Checked] = File(NewReferences)]
  /\ refIssues' = [refIssues EXCEPT ![Checked] =
                     \E t \in DOMAIN cmd.answers : cmd.answers[t].what # "reference"]
  /\ cmd' = [cmd EXCEPT !.step = "outputs"]
  /\ UNCHANGED << facts, snaps, reports, changes, checks, crashes, stale >>

WriteOutputs ==
  LET rec == cmd.records[Checked]
  IN  /\ cmd.op = "check" /\ cmd.step = "outputs"
      /\ outputs' = [outputs EXCEPT ![Checked] =
                       IF rec.status = "failed" THEN NoFile
                       ELSE [run |-> checks, kinds |-> rec.kinds]]
      /\ cmd' = [cmd EXCEPT !.left = @ \ {Checked}, !.step = "clear", !.answers = << >>]
      /\ UNCHANGED << dataset, checkSummary, inspection, portfolio, blockers,
                      changes, checks, crashes, stale >>

WriteCheckSummary ==
  /\ cmd.op = "check" /\ cmd.left = {}
  /\ checkSummary' = IF cmd.records = << >> THEN NoFile
                     ELSE [records |-> cmd.records, req |-> cmd.req, run |-> checks]
  /\ cmd' = Idle
  /\ UNCHANGED << dataset, outputs, inspection, portfolio, blockers,
                  changes, checks, crashes, stale >>

StartInspect ==
  /\ cmd = Idle
  /\ inspection' = NoFile
  /\ cmd' = IF \E s \in Discovered : Raises(s) THEN Idle ELSE [op |-> "inspect"]
  /\ stale' = stale \ {"inspection"}
  /\ UNCHANGED << dataset, outputs, checkSummary, portfolio, blockers, changes, checks, crashes >>

WriteInspection ==
  /\ cmd.op = "inspect"
  /\ inspection' = IF Discovered = {} THEN NoFile
                   ELSE [s \in Discovered |-> OfflineReady(Inputs(s))]
  /\ cmd' = Idle
  /\ UNCHANGED << dataset, outputs, checkSummary, portfolio, blockers,
                  changes, checks, crashes, stale >>

ClearPortfolio == portfolio' = NoFile /\ blockers' = NoFile

StartSummarize ==
  /\ cmd = Idle
  /\ ClearPortfolio
  /\ cmd' = [op |-> "summarize", step |-> "answer"]
  /\ UNCHANGED << dataset, outputs, checkSummary, inspection, changes, checks, crashes, stale >>

(* A report that is not there counts as one without rows. *)
WritePortfolio ==
  LET ready == IF inspection = NoFile THEN << >> ELSE inspection
      records == IF checkSummary = NoFile THEN << >> ELSE checkSummary.records
  IN  /\ cmd.op = "summarize" /\ cmd.step = "answer"
      /\ portfolio' = [cleanDate |-> PortfolioDate(ready, records, "cleanDate"),
                       resolvedDate |-> PortfolioDate(ready, records, "resolvedDate"),
                       blockers |-> BlockersOf(ready, records),
                       check |-> checkSummary, current |-> stale = {}]
      /\ cmd' = [cmd EXCEPT !.step = "blockers"]
      /\ UNCHANGED << dataset, outputs, checkSummary, inspection, blockers,
                      changes, checks, crashes, stale >>

WriteBlockers ==
  /\ cmd.op = "summarize" /\ cmd.step = "blockers"
  /\ blockers' = IF portfolio.blockers = {} THEN NoFile ELSE portfolio.blockers
  /\ cmd' = Idle
  /\ UNCHANGED << dataset, outputs, checkSummary, inspection, portfolio,
                  changes, checks, crashes, stale >>

-----------------------------------------------------------------------------
(* Crashes: between two writes, or during one, which leaves fewer rows or  *)
(* a file that cannot be read.                                             *)

Crash == cmd' = Idle /\ crashes < MaxCrashes /\ crashes' = crashes + 1

CrashBetweenSteps ==
  /\ cmd # Idle
  /\ Crash
  /\ UNCHANGED << dataset, reports, changes, checks, stale >>

Torn(rows) == {File(kept) : kept \in SUBSET rows \ {rows}} \cup {Unreadable}

CrashWritingFacts ==
  /\ cmd.op = "assemble" /\ cmd.step = "facts"
  /\ \E f \in Torn(cmd.data.facts) : facts' = [facts EXCEPT ![cmd.src] = f]
  /\ Crash
  /\ UNCHANGED << snaps, refs, refIssues, reports, changes, checks, stale >>

CrashWritingSnapshots ==
  /\ cmd.op \in {"assemble", "submit"} /\ cmd.step = "snaps"
  /\ \E f \in Torn(cmd.data.snaps) : snaps' = [snaps EXCEPT ![cmd.src] = f]
  /\ Crash
  /\ UNCHANGED << facts, refs, refIssues, reports, changes, checks, stale >>

CrashWritingReferences ==
  /\ \/ /\ cmd.op \in {"assemble", "submit"} /\ cmd.step = "refs"
        /\ \E f \in Torn(cmd.data.refs) : refs' = [refs EXCEPT ![cmd.src] = f]
     \/ /\ cmd.op = "check" /\ cmd.step = "persist"
        /\ \E f \in Torn(NewReferences) : refs' = [refs EXCEPT ![Checked] = f]
  /\ Crash
  /\ Changed
  /\ UNCHANGED << facts, snaps, refIssues, reports, changes, checks >>

(* The tail of a report is lost. *)
CrashWritingCheckSummary ==
  /\ cmd.op = "check" /\ cmd.left = {}
  /\ \E kept \in SUBSET DOMAIN cmd.records \ {DOMAIN cmd.records} :
       checkSummary' = [records |-> [s \in kept |-> cmd.records[s]], req |-> cmd.req, run |-> checks]
  /\ Crash
  /\ UNCHANGED << dataset, outputs, inspection, portfolio, blockers, changes, checks, stale >>

CrashWritingInspection ==
  /\ cmd.op = "inspect"
  /\ \E kept \in SUBSET Discovered \ {Discovered} :
       inspection' = [s \in kept |-> OfflineReady(Inputs(s))]
  /\ Crash
  /\ UNCHANGED << dataset, outputs, checkSummary, portfolio, blockers, changes, checks, stale >>

-----------------------------------------------------------------------------

Init ==
  /\ facts = [s \in Sources |-> Absent] /\ snaps = facts /\ refs = facts
  /\ outputs = [s \in Sources |-> NoFile]
  /\ refIssues = [s \in Sources |-> FALSE]
  /\ checkSummary = NoFile /\ inspection = NoFile /\ portfolio = NoFile /\ blockers = NoFile
  /\ cmd = Idle
  /\ changes = 0 /\ checks = 0 /\ crashes = 0 /\ stale = {}

Next ==
  \/ \E s \in Sources : StartAssemble(s) \/ StartSubmit(s)
  \/ AssembleFacts \/ WriteSnapshots \/ WriteReferences \/ EndCommand
  \/ StartCheck \/ ClearSource \/ Resolve \/ PersistReferences \/ WriteOutputs
  \/ WriteCheckSummary
  \/ StartInspect \/ WriteInspection \/ StartSummarize \/ WritePortfolio
  \/ WriteBlockers
  \/ CrashBetweenSteps \/ CrashWritingFacts \/ CrashWritingSnapshots
  \/ CrashWritingReferences \/ CrashWritingCheckSummary \/ CrashWritingInspection

Spec == Init /\ [][Next]_vars

-----------------------------------------------------------------------------
(* Properties.                                                             *)

Statuses == {"clean", "issues", "failed", "not_runnable", "no_balance_targets"}

(* Files hold rows, are missing or cannot be read; references are of the   *)
(* three kinds; reports name sources and statuses.                         *)
TypeOK ==
  /\ \A s \in Sources : \A r \in Rows(refs[s]) : r.kind \in {Precedence[k] : k \in DOMAIN Precedence}
  /\ refIssues \in [Sources -> BOOLEAN]
  /\ cmd.op \in {"idle", "assemble", "submit", "check", "inspect", "summarize"}
  /\ inspection = NoFile \/ DOMAIN inspection \subseteq Sources
  /\ checkSummary = NoFile \/
       /\ DOMAIN checkSummary.records \subseteq Sources
       /\ \A s \in DOMAIN checkSummary.records : checkSummary.records[s].status \in Statuses
  /\ stale \subseteq {"inspection", "check"}
  /\ checks <= MaxChecks /\ changes <= MaxChanges /\ crashes <= MaxCrashes

CheckIsCurrent == checkSummary # NoFile /\ cmd = Idle /\ "check" \notin stale

(* A clean check means that the evidence agrees: in the scope of the check *)
(* every reference on file equals the balance derived from the facts       *)
(* (check.py, assertions.py), or, without facts, every explicit snapshot   *)
(* has exactly one reference and equals it.                                *)
CleanMeansAgreed ==
  CheckIsCurrent =>
    \A s \in DOMAIN checkSummary.records :
      checkSummary.records[s].status = "clean" =>
        LET i == Inputs(s)
            asOf == checkSummary.req.asOf
        IN  IF i.facts # {}
            THEN \A r \in i.refs : r.t \in InScope({r.t}, asOf) => r.qty = Balance(i.facts, r.t)
            ELSE \A x \in i.snaps : asOf = NoAsOf \/ x.t.at = asOf.at =>
                   \E r \in i.refs : RowsAt(i.refs, MatchKey(x.t)) = {r} /\ r.qty = x.qty

(* A check rewrites its own input (persist_balance_reference_cache), and    *)
(* that must not change its verdict: run again, offline, on what it left,   *)
(* it says the same.  Excepted are a check that met conflicting references, *)
(* one that hydrated and was not clean, and one whose provider answered for *)
(* an instant before the position's first leg: its answer, stored, is what  *)
(* the next check misses the facts of (planning.py).                        *)
RecheckAgrees ==
  CheckIsCurrent =>
    \A s \in DOMAIN checkSummary.records :
      LET i == Inputs(s)
          rec == checkSummary.records[s]
          hydrate == checkSummary.req.hydrate
          plan == CheckPlan(i, checkSummary.req)
          again == Record(plan, i.refs, [t \in Missing(plan, i.refs) |-> Offline], hydrate)
      IN  "reference_conflict" \notin rec.kinds /\ (hydrate => rec.status = "clean" /\ plan.gaps = {})
            => again = rec

(* A portfolio clean date is true of every source with balance files: each *)
(* has a reference at or after that date, alone at its instant, that       *)
(* equals the source's balance (summary.py, _summary_payload).  Inspect    *)
(* and check must be newer than the last change of a source.               *)
PortfolioCleanSound ==
  portfolio # NoFile /\ portfolio.cleanDate > 0 /\ portfolio.current /\ stale = {} =>
    \A s \in Discovered : \E r \in Inputs(s).refs :
      /\ DayOf(r.t.at) >= portfolio.cleanDate
      /\ RowsAt(Inputs(s).refs, MatchKey(r.t)) = {r}
      /\ \/ Inputs(s).facts # {} /\ Balance(Inputs(s).facts, r.t) = r.qty
         \/ \E x \in Inputs(s).snaps : MatchKey(x.t) = MatchKey(r.t) /\ x.qty = r.qty

(* A source inspect calls ready has no unresolved target in an offline     *)
(* check: inspect counts targets with their precision, the resolver by     *)
(* instant (inspect.py, references.py).                                    *)
ReadyMeansResolved ==
  inspection # NoFile /\ "inspection" \notin stale /\ cmd = Idle =>
    \A s \in DOMAIN inspection : inspection[s] = "ready" =>
      Missing(CheckPlan(Inputs(s), [asOf |-> NoAsOf, valid |-> TRUE]), Inputs(s).refs) = {}

(* A check summary and the per-source files it reports are of one run, and *)
(* say the same, whatever was interrupted before: each check clears first. *)
OutputsOfOneCheck ==
  checkSummary # NoFile =>
    \A s \in DOMAIN checkSummary.records :
      IF checkSummary.records[s].status = "failed" THEN outputs[s] = NoFile
      ELSE outputs[s] = [run |-> checkSummary.run, kinds |-> checkSummary.records[s].kinds]

(* The portfolio answer on file was computed from the check summary on     *)
(* file, and a blocker file beside it lists that answer's blockers:        *)
(* starting a check removes the older answer (io.py), and summarizing      *)
(* removes the older blockers, which a check leaves (summary.py).          *)
PortfolioOfThisCheck ==
  portfolio # NoFile =>
    /\ portfolio.check = checkSummary
    /\ blockers # NoFile => blockers = portfolio.blockers

(* An accepted package adds operator assertions and keeps the              *)
(* source_document references that were there (submit.py merges with the   *)
(* existing rows).                                                         *)
SubmitAdds ==
  cmd.op = "submit" /\ cmd.step = "end" /\ ~Blocked(cmd.data) =>
    \A r \in Rows(cmd.before) : r.kind = "source_document" => r \in Rows(refs[cmd.src])

(* A reference row that a check drops because another one conflicts with   *)
(* it is reported as a conflict by that check.                             *)
DroppedRowsReported ==
  [][cmd.op = "check" /\ cmd.step = "persist" /\ crashes' = crashes =>
       (Rows(refs[Checked]) \subseteq Rows(refs'[Checked])
        \/ "reference_conflict" \in cmd.records[Checked].kinds)]_vars
=============================================================================
