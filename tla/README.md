# A verification project for tallylot

tallylot turns raw exports of crypto platforms into evidence, claims, facts and
balances. It is a command-line program over a workspace directory: every command
is one process, all state is files, nothing takes a lock and every file is
written in place. What is hard about it is therefore not threads but *histories*:
which of last week's files may stand for today's results, what a crash in the
middle of a command leaves behind, and whether the control files still agree
after a long sequence of legal commands.

A second difficulty is the data path: rows of a dozen export formats become drafts,
claims, events, balances and references, and at every stage a row can be lost,
counted twice, or read at the wrong instant without anything failing.

This project models that core in TLA+, checks it with TLC on small instances and
proves, with TLAPS, what matters most for every instance.

## Inventory

| component | state it keeps | operations | talks to | what makes it correct |
|---|---|---|---|---|
| target-product engine (`normalization/target_products`) | kernels and detail files under `working/products`, mirrors, the plan in `normalization_summary.json` | resolve, reuse or rebuild a kernel, reuse or refresh a detail, prune, mirror, summarize | builders, projections, repositories | a published run has the products of its input, whatever it reused |
| `source normalize` (`normalize_source.py`, `translation.py`) | evidence set, claim set, capture output | translate, persist, run the engine, record the status | planner, adapters, engine, registry | upstream files match the products; blocked runs stop early |
| capture registry (`intake/captures`) | `source_captures.csv`, `source_inventory.csv` | append a record, append a status, reduce to the inventory | every source command | no history is lost; statuses never step back |
| intake apply (`apply_intake.py`) | raw capture roots, `capture.json` | plan against the registry, copy, register | registry | one drop is one capture |
| source assembly (`normalization/assembly`) | `working/normalized/sources/<source>` | partition, remove, merge, summarize, record the verdicts | registry, capture outputs | no capture twice, accepted ones once, repeatable |
| profiling (`profiling`) | profile files in the capture output | scan, write, record | registry, adapters | marks a capture without lowering it |
| translation-input planner (`normalization/translation_inputs`) | none | group exports, compare their coverage and freshness, select, supersede or block | adapters, evidence set | no activity twice, none lost, and the published plan is the executed one |
| evidence (`evidence`) | evidence sets | collect statements, decide which speak, persist | planner, storage | one reference per target, by the newest statement |
| claims and builders (`claim`, `economics`, `reconciliation`, `checkpoint`, `compatibility`) | none | drafts and statements to claims, events, states, checkpoints and back to facts | engine, domain | rows are accounted for once; the products add up to the rows |
| balances (`balances`) | `balance_references.csv` of each source, assertion and issue files, check summary, inspection, portfolio answer, blockers | inspect, check (which rewrites its references), summarize, corroborate | assembled datasets, providers | a clean verdict is true, and rewriting the references does not change it |
| balance submission (`checkpoints`) | snapshots, references, location inventory, summary and issues of a source; the aggregated inventory | validate, clear, materialize, merge; rebuild the inventory | storage, corroboration | accepted means paired; the summary is true of the folder |
| balance providers (`adapters/balance_providers`) | none | answer for a target | the check's resolver | at most one answer per target |
| archives and intake planning (`intake/archive`, `packages`, `routing`, `source_labels`, `plan`) | raw evidence, manifests | scan, match, route, label, merge packages | adapters, registry | no content lost, none captured twice, every capture in a folder of its own |
| source adapters (`adapters/sources`, `adapters/support`) | none (a shared state while the files of one capture are translated) | rows to drafts, issues and reviews | profile, facts compiler | repeated or split rows are booked once, refused rows are reported |
| storage, CLI, wiring, output renderers, tooling | files and values | parse, format, dispatch | all | out of this project, see below |

Hard behaviours: crashes between and inside file writes (there is no temporary
file and rename, `csv_io.py`, `json_io.py`), stale plans and stale files that look
current, histories that are re-read to decide, verdicts that feed the next
verdict. `PROJECT.json` lists each as a hazard with the line where it bites.

## Modules

`TargetProducts` is one capture's target-product engine. Its persistent variables
are the files: `raw`, `upstream` (evidence set, claim set), `disk` (kernel and
detail files by product ref), `mirror` and `summary` (the plan). The others are
the locals of the running process. One action per write, in the order of
`translation.py`, `target_products/service.py` and `normalize_source.py`:
`StartNormalize`, `WriteEvidenceSet`, `WriteClaimSet` (which also loads the prior
plan), then for each of the three families `ResolveKernels` (may the prior kernels
stand for the current ones?) and per product `ReuseKernel` or `RebuildKernel`,
`ReuseDetail` or `DecideRefresh` and `RefreshDetail`; then `Prune`, `WriteMirrors`,
`WriteSummary`, `EndRun`. `EditRaw` is the operator; `Disturb` is a product file
changed between runs; each write has a `Crash...` action that may leave that file
torn. A fingerprint is a hash of content and is modelled as the content. The
builders and projections are constant operators with typing assumptions, so what
is proved holds for any of them. An input that the profile refuses fails before
anything is written and is the guard of `StartNormalize`. Contents of a torn file:
a torn JSON does not parse; a torn CSV may parse, to fewer rows (`Partial`).

`CaptureLifecycle` is the captures of one source (rows of other sources never take
part in a decision) through `apply`, `profile`, `normalize` and `assemble`.
Variables are the files: `registry`, `roots` with their `contents`, `outputs`,
`dataset`, `summary`, `inventory`. A command is a job that goes through its writes one action at a time
and ends in the shared tail `AppendCaptureStatus`*, `UpdateSourceInventory`. The
whole of `TargetProducts` is the single step `WriteMirrors` here. Labels are
abstracted to the attempt, and uids are issued in time order as ULIDs are. A drop the
planner blocks outright writes only reports and is left out. The registry is truncated
and written again on every append, so a crash leaves it ending at any byte: the first
rows whole, the last possibly short, and `csv.DictReader` reads a short row with its
missing cells empty. `CutsOf` is what may be left of a row, by the order of its columns:
uid, source, status, times, fingerprint, period. A cell cut in the middle is "cut" (a
status the code does not know), an unreadable time (`timed` is false, and the command
raises in `InventoryRaises`, every later one too), no fingerprint (`NoPrint`), or a
period that ends earlier. The next append repeats the latest row of the capture with
what it has left. A cut that leaves the uid or the source of another row, or half of a
character, is not modelled; in the inventory row a cut status is as good as none.

`BalanceEvidence` is what happens after assembly: each source's `facts`, `snaps` and
`refs` files, written by `source assemble` and `checkpoint submit-balances` and read
by `reconciliation balances inspect`, `check` and `summarize`, whose reports are
`outputs` (per source), `checkSummary`, `inspection`, `portfolio` and `blockers`.
A check clears the previous summary and answer (`StartCheck`), then for each source
`ClearSource`, `Resolve` (match the planned targets with references, ask a provider
for the rest), `PersistReferences` (write the references back) and `WriteOutputs`,
and finally `WriteCheckSummary`. What is planned and concluded is the operators
`CheckPlan`, `AssertionStatus`, `IssueKinds`, `Record` (`planning.py`, `targets.py`,
`assertions.py`, `check.py`), `PersistedReferences` (`io.py`), `OfflineReady`
(`inspect.py`) and `PortfolioDate` (`summary.py`). `stale` is a history variable: it
says which report is older than the last change of a source, and guards nothing.

Abstractions: the workspace time zone is UTC, so that a day is a quotient of the
instant; `--as-of` is given at most once; the support of a reference is one value for
`observed_at`, its precision and `support_ref`; quantities have one digit, so the
order of rows as text is their order as numbers. A file is its rows, `Absent` or
`Unreadable`; a torn one is any proper subset of its rows or unreadable, which is more
than a lost tail. The location inventory is
left out: it alone never makes a source discovered. Cross-source sidecars are
write-only. `ProviderAnswers` is what providers say, and the constant operator `MayAnswer`
whether one may say it of a target.

`EvidenceSelection` is what `execute_translation` does before a row is read. The
operator puts exports and statements into a capture (`AddFile`, `AddDocument`); then
`CollectStatements` (`collection.py`), `PlanInputs` (`translation_inputs`: validation,
groups, components of overlapping coverage, freshness), `PublishPlan` (the evidence
set and the plan rebuilt from it, `compatibility/translation_inputs.py`) and
`TranslateSelected`, which the rebuilt plan may stop. Exports are records of what an
adapter says of a file; which adapters plan is Coinbase today, and the other groups
stand for the contract of `TranslationInputPlanningAdapter`. Paths are numbers, for
their order as text. The depth-first search of `overlap.py` is stated by its result:
the component of a candidate is what all sets that hold it, and hold whatever meets one
of theirs, have in common. The two sorts of the plan are one, `SelectionOrder`, since
their keys are equal (`models.py:88`, `compatibility/translation_inputs.py:193`).

`ClaimProducts` carries the selected Coinbase exports and statement balances on:
`Translate` (rows to drafts), `BuildClaims`, `BuildEconomics`, `Reconcile`,
`Checkpoint` and `Publish` (facts and references of the products). Each action is one
builder of the code with every way it may raise, which ends the command as `raised`.
It opens up what `TargetProducts` takes as constant builders: the typing assumptions
made there are about these operators.

`ArchiveScan` and `IntakePlanning` are one intake after another over a workspace.
The scan lists files and archive members step by step, an explicit stack in place of
the recursion, with one budget of members and bytes for all archives. Planning
routes, relabels, reviews overlaps, plans the capture session and decides packages;
the copy loop, manifests, `capture.json`, the registry and the inventory are steps of
their own, and `Crash` may strike between any two.

`SourceTranslation` composes `PlatformTranslation` (Binance, Shakepay, Wealthsimple,
Crypto.com, gTrade, structured CSV) and `ChainTranslation` (EVM explorers, NEAR,
Ronin, Ledger Live), both over the drafts of `ActivityDrafts`, which validates legs
and policies as the fact model does. Rows are added to the files of a capture and
the adapter runs: Binance file by file with the state its files share
(`translate_file_families`, `NextFile`, `TranslateFile`), the others at once.

`BalanceSubmission` is the folders of several sources: `SubmitBalances` (parsing,
row and cross-row validation, clearing, materializing, merging), `AssembleSource`
(the merge of balance rows with its conflicts), `CorroborateSources` (the pairwise
comparison that ends `balances check`) and `RebuildLocationInventory`. Commands are
atomic here, since the writes of a submission and their crashes are
`BalanceEvidence`'s; folders backed by facts are that module's too. Texts keep what
matters of them: several spellings may parse to one value.

`SourceProfiling` (with the dates in `DateInference`) is `source profile` and the gate
of `source normalize`: the header among the first rows, the order of day and month,
clocks and offsets in cells, headers and file names, the period, the families and
adapter of the capture, the timezone verdict, and the instant at which the adapter
then books a row. Every export also carries the instants its provider meant, which
only the properties read.

`NormalizeContract` is the abstract specification of a normalize run for whoever
reads its products: the plan on record changes in one step, only to the plan that a
build from the raw capture would record, with the kernels it names on file; a run that
does not get that far leaves the plan as it was or none. `TargetProducts` implements
it (`Contract`, `ImplementsContract`) under a mapping of `pc` to the phase, `summary`
to the plan and the kernel files of `disk` to the kernels.

`MC...` modules give small instances. The proofs stand beside the modules they are
about: `TargetProductsProofs`, which includes the refinement of `NormalizeContract`, and
`TargetProductsHistory`, which extends it; `CaptureLifecycleProofs`;
`BalanceCheckProofs`; `EvidenceSelectionProofs`; `IntakePlanningProofs`, which is about
`ArchiveScan` as well; `BalanceSubmissionProofs`; and `SourceProfilingProofs`, which is
about `DateInference` as well.

## Runs

| run | question | result |
|---|---|---|
| `TP_reruns` | edits and reruns in the three modes over six inputs, one product file removed, corrupted or replaced | nothing stale, nothing unchanged rewritten, only a built kernel is written |
| `TP_crash` | two crashes anywhere, over three inputs that differ in kernels and details or are refused | published kernels are right; a full update repairs the rest; the engine implements its contract |
| `CL_commands` | any sequence of commands on two captures, with a crash anywhere that may end the registry at any byte, or an output removed by hand | inventory follows the registry; normalized captures stay includable; nothing is merged twice; one assembly settles; each but for the capture that lost the cell it rests on |
| `BE_evidence` | one source, any two assemblies or submissions and two checks in all modes, any inspect and summarize, one crash anywhere that may tear the file being written | a clean verdict is true; a check's rewriting does not change its verdict; ready means resolved; reports that lie side by side are of one check |
| `BE_portfolio` | two sources, two changes, a check of all or of some | the portfolio clean date is true of every source |
| `ES_plan` | all captures of up to three exports or statements | no activity twice, none lost, the published plan is executed, one reference per target, by the newest statement |
| `CP_claims` | all captures of up to three retail rows and two statement balances | each row once; drafts survive the claim set; without a window products conserve every asset and both ways to facts agree; a reference is the sum of the activity, whatever the window |
| `IP_intake` | drops of folders and archives, up to three intakes in a row, crashes | every member accounted for within the limits; no content dropped; newer supersedes; shared and recaptured files are reviewed; a folder per capture; nothing captured twice |
| `IP_overwrite` | violation | two files of one drop get one target path |
| `AD_translate` | captures of nine adapters with up to three rows | orders settle the history rows they explain; a failing file costs only itself; repeated exports count once; a summary's clock is that of the nearest transaction both exports hold, and without one it books nothing; contract calls are not booked as transfers |
| `BS_submit` | three commands over three sources and right and wrong packages | accepted is paired; the summary is of the folder; one identity per location; conflicts and mismatches are reported; the aggregate is sound |
| `SP_profile` | captures of up to three exports, two commands | periods and bookings are those the provider meant; dates are not mistaken |

`IP_overwrite` is a disagreement between the code and a sentence of the docs;
`findings` in `PROJECT.json` quotes both sides. Most properties of the data path are conjunctions of named parts, defined just before
them. Every module states `TypeOK` for its readers; the runs check the one of the
engine, and of the capture registry it is proved. Properties with a proviso say in their
comment which histories they leave out; the provisos are what the next table is about.

### Documented statements the code does not keep

Each of these is stated in its module as the document words it and does not hold of
the model; a configuration of the same instance with the definition as its only
property gives the counterexample. No run of the project depends on them.

| definition (module) | what the code does | what is said |
|---|---|---|
| `MirrorsFromTruth` (`TargetProducts`) | a CSV detail torn by a crash still parses, is reused by its plan's signature, and reaches the mirrors (`planning.py:327`) | `docs/status/current-state.md:98`: mirrors are rewritten from the current authoritative truth; `RefreshHeals` is what holds |
| `NormalizedHasOutput` (`CaptureLifecycle`) | an `assembly_excluded` row counts as normalized, also for a blocked duplicate (`lifecycle.py:166`) | `docs/workspace/analysis/issues/README.md:94`: at least one capture has normalized output |
| `IncludedContribute` (`CaptureLifecycle`) | a capture is included when its output directory exists, which profiling creates (`assembly/service.py:89`) | `docs/concepts/current-bridge-contracts.md:326`: the union of primary evidence is preserved |
| `SubmitAdds` (`BalanceEvidence`) | the references are deleted before they are read to be merged (`submit.py:71`) | `docs/workspace/working/normalized/README.md:88`: later workflows may add rows |
| `DroppedRowsReported` (`BalanceEvidence`) | the cache key leaves out the quantity, so one of two conflicting rows goes without an issue (`io.py:97`) | `docs/workspace/analysis/reconciliation/README.md:33`: conflicting rows have explicit issues; `RecheckAgrees`, with its exceptions, is what holds |
| `EveryRowPaired` (`BalanceSubmission`) | two spellings of one target are two keys, and a count of two escapes both checks (`consistency.py:72`) | `docs/reference/manual-balance-submission-artifacts.md:164-167`: exactly one matching row each way |
| `PublishedFactsInWindow` (`ClaimProducts`) | product facts replace the filtered ones (`normalize_source.py:240`) | `docs/concepts/current-bridge-contracts.md:299`: windowed normalization applies to `facts.csv` |
| `HistoryRowsSurface` (`SourceTranslation`) | one-sided staking and dust groups are skipped (`transaction_history.py`) | `docs/guides/write-an-adapter.md:60`: surface unsupported or ambiguous rows as issues |
| `ShiftedOverlapsReviewed` (`SourceProfiling`) | a period already in UTC is shifted once more (`timezones.py:275`) | `docs/reference/timezone-validation-artifacts.md:20`: persisted timestamps are read as UTC |
| `MixedCapturesFail` (`SourceProfiling`) | the Coinbase adapter claims no retail export, so one beside another provider's file is not mixed (`coinbase/adapter.py:71`) | `docs/guides/write-an-adapter.md:156`: mixed captures must fail explicitly |
| `HeldBackIsSkipped` (`IntakePlanning`) | package decisions are joined back by path, identical members of two archives share one, and a row held back by the source map takes the copy of its twin (`finalize.py:68`) | `docs/workspace/analysis/issues/README.md:148-151`: intake skips the affected rows instead of silently falling back |
| `DuplicatesSkipped` (`IntakePlanning`) | package decisions are joined back by path, and a zip shares it with the entry that stands for it (`finalize.py:49`) | `tests/unit/application/intake/plan/test_package_review_workflow.py:12` |

The drops of `IP_intake` include such twins (`Twins`), which is why some properties of
`IntakePlanning` speak of `Untwinned` rows.

`RecheckAgrees` excepts one more history than the documents would: a provider that
answers for an instant before the position's first leg makes a check clean, and its
answer, stored as a reference, is what the next check misses facts of
(`missing_fact_coverage`, `planning.py`). The providers that ship answer nothing yet, so
no finding is made of it.

One crash effect is in the model without a run of its own: a product written before a
crash and its summary is never pruned (`NothingStale` is about histories without a
crash).

What a cut registry row costs. The properties of `CaptureLifecycle` name these
histories as exceptions; the model reaches each of them, and so does the code, where
`csv_io.py:16-20` writes in place and `ports/captures.py:25-42` gives the columns.

| the row ends | then | exception of |
|---|---|---|
| in the source | the capture leaves the source, and every later status repeats the row without it | `AssembleSettles` (`SourceCut`) |
| in the status | a normalized capture may be sorted as pending, and so is left out of the dataset, until it is normalized again | `NormalizedStaysIncludable` (`StatusCut`) |
| after the status, before the fingerprint is whole | the capture counts as before, and its drop can be captured, normalized and merged a second time (`session.py:121-129`) | `NoDoubleCount` (`PrintsOf`) |

Bounds. Two evidence sets, two claim bodies and two variants of each projection
input give the combinations of same/changed kernel and same/changed detail; three
reconciliation states let a family grow, shrink and change refs; one claim-less and
one blocked input cover the early exits. Two crashes are needed for a torn file
whose repair is torn as well; one disturbance is enough for each single file to be
wrong. Three drops: two overlap, one has no period; two captures allow a duplicate or
an overlap beside the first. A command starts on at most four registry rows
(`MaxRows = 5`), and an assembly then adds one for each capture: enough for two
normalized captures and their verdicts, or for one and a verdict that is revised. One mishap, a crash or an output removed by hand, is
enough for each of the exceptions above (`MaxMishaps = 1`); the proofs are for any
number. The two drops of one period differ in nothing but their fingerprint, which only
equality looks at, and are symmetric. Every command but a refused
or an empty one adds a row, so `MaxRows` bounds their number. `CaptureLifecycle`, `IntakePlanning`, `SourceTranslation`,
`BalanceSubmission` and `SourceProfiling` run without deadlock checking, since a
workspace on which no more commands fit the bounds is simply idle.

The evidence of `BalanceEvidence` is a list of datasets chosen for the cases of the
code: matching, drifting, conflicting and missing references, the same midnight as a
date and as a timestamp, a reference no leg covers, explicit snapshots with and
without their references, a position that starts late whose provider answers zero for
the day before, no evidence at all; and of packages, two accepted ones, one
that contradicts itself and a malformed one. Two changes let a source change after a
check, two checks let one read what the other wrote. The two-source run needs one check only, since a second one removes
the first one's summary.

The instances of the data path are chosen by the cases the code tells apart. `ES_plan`:
ranges that are equal, nested, touching, overlapping, disjoint, half known and unknown,
with two kinds of freshness, so three exports make every chain, star and triangle of
overlaps. `CP_claims`: fourteen rows of all retail types with and without fee and total,
with a blank asset or price currency, in the open window and in one of a single instant,
two of one id, a migration in pairs, threes and without an instant, three files of which two share a base name;
three rows are needed for a migration that has one row too many. `IP_intake`: two and
three packages with all choices of shared, newer and older files, eight archives
(nested twice, oversized, damaged, with unsafe members), nine source maps; three runs
for a capture, its crash and the attempt after it. `AD_translate`: per family the rows
that differ in what the translator branches on, and three rows because a Ronin summary
needs a second transaction to calibrate its clock; forty-five captures of five rows
(`RoninClocks`) hold two such transactions whose offsets differ and a third the summary
alone shows, near the one, near the other, or half way. `BS_submit`: packages that are
right, contradict themselves, or spell one target in two ways, with three sources so
that an identity can be shared by two and denied by the third. `SP_profile`: eighteen
exports in the clocks and spellings the adapters meet.

Fairness. None is assumed and no property needs it. A command is a sequence of loops
over finite lists: that it comes to its end is plain, and nothing makes an operator
start another one. What must hold in the end is stated of the state a command leaves.

## Proofs

`TypeCorrect`: `Spec => []TypeOK`. `PublishedKernelsAuthoritative`:
`Spec => []KernelsAuthoritative`, for any inputs, any builders that satisfy
`BuildersTyped`, any number of crashes and disturbances.

`KernelsAuthoritative` speaks about the moment of publication only. The inductive
invariant `IInv` adds what makes it true on the way:

- `PlanSound(summary)` and `PlanSound(prior)`: a plan's products are those of some
  input with the plan's claims and evidence. This is what allows a prior kernel to
  stand for a current one when the claims are equal: builders are functions of the
  claims, and equal claims have equal evidence (`InputsWellFormed`).
- `Progress`: at each program point the families already resolved are the products
  of the input, and the kernels already processed are on disk.
- `UpstreamWritten`: after their steps the evidence set and claim set of the input
  are on disk.

One lemma per action shows it preserved. A reused kernel is on disk with the
recorded fingerprint (`Mismatch` is empty), a rebuilt one was just written, and
`Prune` removes only refs that are not current.

`EngineImplementsContract`: `Spec => ImplementsContract`, from the same invariant. The
engine's steps are matched one by one: writing a kernel, pruning and damage are `Work`
and `Damage` of the contract, reading and deciding are stutters, and `WriteSummary` is
`Publish`, for which `IInv` gives that the products are those of the raw capture and
that every kernel named is on file. A crash while the summary is written is the step
that may lose the plan.

`TargetProductsHistory` is about sequences of runs. `HistoryInv` is `IInv` with:

- `PlansRecorded`: a plan on file is the one a build from some input records, so a
  plan that equals the current one in its claims equals it in its signatures too.
- `FilesNamed`: without faults every product file belongs to a product the recorded
  plan names or the run has made. From it, `FinishedRunLeavesNothingStale`.
- `ReuseGrounds`: what `ResolveKernels` found holds until the last kernel of the family
  is decided, so a kernel that has to be written is one the run built:
  `WrittenKernelWasBuilt`.
- `DetailsDone`, `DetailsRecorded`, `MirrorsWritten`: a run that refreshes, or one
  before which nothing was torn or damaged, makes the details right product by product;
  those not reached yet still are what the plan on file signs. From these,
  `FullRefreshHeals`: `Spec => []RefreshHeals`.

`RerunWritesNothing` (`Spec => UnchangedIsReused`) is an action property: with
`PlansRecorded`, claims that are unchanged give the recorded products, and `Mismatch` of
intact files is empty.

`CaptureLifecycleProofs` proves `LifecycleTypeCorrect`, `NormalizedIsNeverExcluded` and
`NoDropCountsTwice`, for any number of captures, rows, crashes and removals. A crash may
end the registry in any of its rows. The parts of `SoundRows` are stated of a list of
rows, and each has a form that every prefix keeps: what it says of a row is said of
earlier rows or of the raw roots, never of later rows. `HiddenStays` is that a capture
whose source was cut stays hidden; `StatusesAdvance` that a capture's row after a settled
one is settled or comes after a cut status; `IncludedWasNormalized` that an included row
follows a normalized one of the same capture; `PrintIsOfRoot` that a fingerprint in a row
is that of the files in the capture's root; `RepeatsHaveNoRoot` that a drop whose
fingerprint an earlier row tells has no second root. `SoundAppended` keeps them when a
row is added that `Follows` the list, `SoundRemainder` when a crash leaves its first rows
and what is `Worn` of the next; since the list being written is the old one with such a
row (`NewRecordFollows`, `MarkFollows`), the two lemmas cover every write and every crash
in one. `SortedAsBefore` ties a running assembly to the registry it read: the captures it
included and excluded are those the registry would give now, because a verdict leaves
every capture in its group (`VerdictKeepsGroup`), and an included one was normalized and
has a complete root.

For the ends of the commands that invariant is extended to `LifecycleInv`, which gives
`AssemblySettlesTheSource` and `InventoryNeverForgets`. Of an assembly, `VerdictsAgree`,
`SummaryAgrees` and `InventoryFollows` hold with any crash, because the crash ends the
command and a finished one has run to its end; `VerdictsAgree` leaves out the captures a
cut source hides. That the inventory knows what the
registry knows (`AssembledHasDataset`, `NormalizedKnown`, `ProfiledKnown`) is lost for
good by a crash between the two writes; these parts, like the property, are about
histories without one.

`AnswersBelongToTheirCheck`: `Spec => []PortfolioOfThisCheck`, and
`SummariesBelongToTheirOutputs`: `Spec => []OutputsOfOneCheck`, for any sources,
datasets, packages, provider answers and numbers of commands and crashes. Neither is
inductive: that the files of a source are those of the summary is lost the moment
the next check starts on that source. `ReportsTogether` adds why this is never seen:
`Cleared`, while a check runs there is no summary and no answer, so a crash leaves
none beside the new files; `FinishedReported`, a source already checked has the
files its record in the running process describes, so the summary written at the end
is true; `CommandShape`, a record exists for the source whose files are written. The
proof takes the steps in three groups (commands that write evidence, a check,
inspect and summarize), and needs of a check's conclusion only that it is recorded.

`BalanceCheckProofs` is about what a check concludes: `CleanVerdictsAreTrue`,
`CheckingChangesNoVerdict` and `ReadySourcesResolve`, for any evidence, answers and
crashes. The difficulty is that a check rewrites the references it judges, and that a
crash or the next command may come between the verdict and the report. The first half
is about the operators:

- the references of one instant in a file are of one kind (`References`), since captures
  yield statements only, a submission deletes the references before it writes its own,
  and a provider is asked only where there is none. So the precedence of kinds never
  hides a disagreeing row, and one kind with one row is what `matched` means;
- the rewriting keeps the row of largest quantity per cache key, so every target keeps
  a row, and loses rows only where a `reference_conflict` was reported;
- hence on the rewritten file the plan, the assertions and the record are the same
  (`VerdictSaidAgain`), and a clean record is true of it (`CleanVerdictTrue`).

`VerdictInv` carries this through the steps: `AnswersPending`, between `Resolve` and
`PersistReferences` the record is that of the references on file;
`RecordsJudged` and `SummaryJudged`, a record is true of the files from then until a
source changes, first in the running process and then in the summary; `WriterShape`,
while a source is written every report is marked older than it; `InspectionTrue`, the
same for inspect. It was model-checked on the instance of `BE_evidence` before it was
proved.

`PortfolioDateIsSupported` is `Spec => [](crashes = 0 => PortfolioCleanSound)`. `CleanIsDated`
joins the verdicts above: the date of a clean record is the day of a reference that is
alone at its instant and agrees. `InspectionWhole`, the inspection lists every source
that is there, also while a check removes and rewrites files, and `AnswerSupported`
complete the invariant. The hypothesis is needed: an inspection that lost its tail is
silent about a source, and the answer then is, too.

`EvidenceSelectionProofs` proves `ExecutedPlanWasPublished`, `ActivityIsCountedOnce`,
`NothingTranslatedIsLost`, `NewestStatementIsTaken` and `SelectionTypes`, for any
exports and statements and any number of files in a capture. The state is simple
(`SelectionInv`: what has been decided is what the capture's files give); the
difficulty is what the planner computes:

- counting the predecessors of an element numbers a finite set in a total order
  (`RankNumbers`), and the plan's sort key is one (`OrderIsTotal`), so the sequence that
  is translated lists each selected export once (`SelectionOrderLists`), and candidates
  always have a freshest one to win (`WinnerIsFreshest`);
- meeting is mutual, so the components part the candidates, and members of two never
  meet (`ComponentsPart`);
- a component is held, or one export is selected that is no staler than any of it, or
  has its bytes, and covers it (`ComponentDecides`); so for a group (`GroupDecides`) and
  the capture (`PlanDecides`), whose decisions are joined without a clash because
  candidate ids are unique (`JoinedParts`);
- every planner status survives the way through a member status of the evidence set
  (`MemberStatusMatches`), so the rebuilt plan is the plan (`RebuiltPlanAgrees`);
- of two statements one precedes the other (`PrecedenceIsTotal`), and a document's rows
  have an order, so of the rows of one key one is read before all others (`SpokenOnce`),
  whether it states anything or not. A location and a kind fix the place
  (`DocumentAssumption`), so the rows of a target are of one key (`TargetNamesKey`), the
  sum over them has one summand (`TotalOfOne`), and a reference quotes the quantity of
  its row (`ReferenceQuotes`).

`IntakePlanningProofs` is about intake, for any folders, contents, limits, source maps and
adapters, any number of commands (`MaxRuns` is any number) and an apply that may die
between any two of its writes.

- `ScansAreComplete`: `Spec => []ScanIsComplete`. `ScanInv` says of the unfinished scan
  what the property says of a finished one: `Accounted`, every member of an opened
  archive is listed, reported (itself or with its archive), or still to come in the
  frame of that archive; `ZipsOpened`; `Budgeted`, the counters are the number and the
  sum of sizes of the members read. Two parts make this inductive. `FramesNest`, the
  stack is a chain, each frame's path one longer than the one below, so only the top
  frame's archive gains members. `NamesApart` with `SeenNames` and `NestedFiles`, a name
  is listed once, because a frame remembers the members of its archive, and a loose file
  has no member's path. The sum is a recursive function over sets of indexes; that it
  is defined, and grows by the size of what is added, are inductions written out as
  least counterexamples (`SumIsDefined`).
- `CapturesStayApart`: `Spec => []CapturesApart`. `next_capture_label` takes the first
  label of the minute that is free, so there must be one: `LabelsBounded`, the labels in
  use are no more than the commands that ran, and of more candidates than that one is
  free (`FreshLabel`, a pigeonhole). It holds because a run writes under one label only,
  which is `OneCapturePerRun`, and because targets outside the raw tree have no capture
  label (`OthersUnlabelled`). `NewFingerprint`, from the plan to the record the capture's
  fingerprint is none the registry has for its source, gives `CapturedOnce`.
- `RecapturesReviewed`: `Spec => []RecaptureReviewed`. The review codes are given when a
  row is planned; the lemmas about the capture plan and the package rules (`SessionPlan`,
  `RulesKeep`, `PlanItems`) say what neither changes of a row: its file, category and
  source stay, codes are only added, and a skipped row is never brought back unless a
  twin's decision does it. That bytes overlap themselves (`SameBytesOverlap`) rests on
  the greatest and the least of a finite set of instants.

Labels, fingerprints and rows were model-checked as invariants of the instance of
`IP_intake` before they were proved.

`BalanceSubmissionProofs` proves every property of `BS_submit`: `SubmissionsHold`,
`AssemblyReportsConflicts`, `CorroborationHolds` and `LocationsHold`, with
`SubmissionsTyped`, for any sources, packages, captures, parsers and numbers of commands.

- The invariant is `FoldersInv` (`FoldersInductive`): a folder is empty, or what its
  latest package makes of it (`SubmittedFolder`: refused with its issues, cut short by a
  name of which nothing is left, or published as validated), or the merge of captures of
  its source (`AssembledFolder`); and the sidecars and the rebuilt inventory, just after
  the command that writes them, are those of the folders. That a submission deletes only
  part of a folder is why this has to be said: the conflicts of an earlier assembly stay,
  its rows do not.
- What a package without issues is: every row is readable (`PackageRead`), and what
  validation hands on is the rows in their order (`AcceptedIs`). This rests on
  concatenation: a list joined of single elements has them in place (`FlattenSingles`), and
  a join has the elements of its parts (`FlattenRange`); `FlattenSeq` is a fold, so both
  are inductions along a recursive function, written out as least counterexamples.
- `SubmissionsHold`: with no repeated target, the sets of the rows are as large as the
  files (`PlacesCount`), and each balance matches one reference, because the validation
  counts the keys of both sides.
- `CorroborationHolds`: of several balances with one key the one that is kept exists and
  is one of them (`KeptIsOne`; a finite set of integers has a least element,
  `LeastInteger`). `Comparable` and `eligible_identities` then give the assertion of each
  pair (`CorroborationAgreesWith`), or the issue that names one of the two
  (`NothingSkipped`).
- `LocationsHold`: sources and rows are listed by `Sorted`, and the lemmas show that
  such a list exists and has exactly the elements (`SortedLists`); a line of the rebuilt
  inventory collects the rows of one location, and no row is in two.

`FoldersInv` was model-checked on the instance of `BS_submit` before it was proved.

`SourceProfilingProofs` is about any exports and any captures made of them.

- The invariant is `ProfileInv` (`ProfilesInductive`): a translated capture has the
  profile of the files that lie there, and that profile was not refused; adding an export
  takes both away.
- `RowsBookedWhenWritten`: `Spec => []BookedWhenWritten`. Two chains meet in it. The
  adapter: the files of a translated capture have one adapter between them, and
  `selected_adapter_id`, which looks at the index of the registered adapters, answers
  with that one. The clock: a profile that is not refused has a clock mode that the
  adapter accepts for every file with rows, and for each mode the instant the adapter
  books is the one `written`. The property, and so the theorem, leaves out the file names
  only one of adapter and profile can read and month-first reports.
- `DatesReadAsWritten`: `Spec => []DatesNotMistaken`, the half of `ClocksAreRead` about
  slashed dates, for exports of any length: one that lists its rows in order and without
  a long gap passes each of the three tests of `infer_date_only_format` (range,
  chronology, anchors) in its own format, so the other format never decides alone.

Both read lists of rows and values by `Filtered`, a recursive function that keeps what
passes a test; that it is defined and holds only elements of the list that pass are
inductions written out as least counterexamples (`ChoiceExists`, `ChoiceKeeps`).

Assumptions on constants, besides types and bounds: `BuildersTyped` and `InputsWellFormed`
(builders are functions into their kernels; equal claims come from equal evidence);
`SentinelsDistinct`, `PlansArePlans` and `NothingIsNothing`, that the values standing for
"no file" and "no plan" are none of the contents, which is an encoding and not a fact of
the code (`"unset"` stands for an empty status cell for the same reason);
`EvidenceShape`, files are finite, instants and quantities are integers, and captures yield references
of statements only (`source_evidence.py`, `portfolio_evidence.py`);
`ContentsAssumption` and `DropsAssumption`, the members of an archive and the files of a
folder have contents, and a folder lists a name once; `TimesAssumption`, a file has
finitely many instants;
`SourcesAssumption` and `ValuesAssumption`, sources are finitely many and stand in an
order, a decimal that parses is an integer (negative ones too) and a venue has a place in
the order of names; `PackagesAssumption`, a file that can be read is a list of rows whose
texts the parsers know; `CapturesAssumption`, the datasets that are assembled hold
finitely many balances, references and locations, and balances of their own source;
`ExportsAssumption`, what `written` means: a file has one clock, that of its header, of
its name or of each value, and writes its slashed dates in one format;
`ExportAssumption`, types and kinds of freshness of an export; `DocumentAssumption`, the
statement parsers leave no place blank (a blank one and the source's own label resolve to
one location) and never give one place in two kinds that both become "available"
(`coinbase/pdf_balances.py:89-140`, `shakepay/pdf_balances.py:115-140`,
`binance/statement_evidence.py:90-105`, `shakepay/statement_evidence.py:95-110`). TLC
evaluates each on the instances.

Only model-checked: of `IntakePlanning`,
`PackagesSettled`, which depends on the order in which packages are
sorted, merged and compared (sorts and folds of the community modules, which the provers
cannot expand); of `SourceProfiling`, `ClocksAreRead`, whose other half, the period of a
profile, depends on `is_plausible_header_row` finding the header, a heuristic over words
that only instances can be asked about; the adapters and the claims
(`SourceTranslation`, `ClaimProducts`), whose properties are about what folds over long
chains of rows compute: the induction theorems of the library cannot be instantiated,
and their inductions would have to be written out as least counterexamples.

## Not modelled

- PDF and HTML parsing, the EVM wallet adapter, portfolio evidence of the EVM
  explorers, CoinTracking as a source and the API stubs: reading of documents
  or single-record conversion without a decision a property could be about.
- Output renderers, codecs and artifact layouts, the command line, discovery,
  configuration and workspace creation: formatting and wiring.
- `src/tools` and `src/repo_support`: checks of the repository for its developers.
- Two commands at the same time: the code has no lock and would lose a registry row or
  share a capture label; the models run one command at a time, as a person at a
  terminal does.
- `plan_target_product_execution` and the planning helpers only it uses: the running
  code does not call them.
- Of the balances: the layout of the reports, package scaffolding, PDF extraction and
  `--input-root` given as a single source directory. After an assembly the summary of an
  earlier submission stays in the folder; no document says whose it is, and
  `SummaryIsOfFolder` speaks of the state a submission leaves.
- Of the data path: identifiers of issues and reviews, wording, the time window of
  issues, precision of decimals beyond the integers of the instances.

## Plan

1. Rerun engine, capture life cycle, balance evidence; their invariants proved where
   they are about the engine and the reports: done.
2. Planner, claims and builders, intake, adapters, submission and profiling as modules
   of their own; the contract of the engine and its refinement: done.
3. Proofs of the histories: reruns (`TargetProductsHistory`), the registry and the
   inventory, the verdicts of checks and the portfolio answer, the planner and the
   choice of statements, the scan and the captures of intake, submissions and
   corroboration, the booking of rows and the reading of dates: done.
4. Two commands interleaved on the registry, as a run that shows which properties of
   `CaptureLifecycle` need one command at a time.
