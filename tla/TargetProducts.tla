-------------------------- MODULE TargetProducts --------------------------
(***************************************************************************)
(* The target-product rerun engine of `source normalize`, for one capture. *)
(*                                                                         *)
(* A run reads the raw capture, writes the evidence set and the claim set, *)
(* then brings three families of derived products up to date under         *)
(* working/products: one EconomicFacts, its ReconciliationStates and their *)
(* Checkpoints.  Each product has an authoritative kernel (JSON) and       *)
(* compatibility detail files projected from it.  A kernel or a detail of  *)
(* the previous run is reused when the plan recorded in                    *)
(* normalization_summary.json says that it is still current; products the  *)
(* new plan does not name are pruned; capture-local mirror files are       *)
(* rewritten; the summary is written last and is the plan the next run     *)
(* starts from.  Files are written in place, so a crash loses the run and  *)
(* may leave the file being written torn.                                  *)
(*                                                                         *)
(* A fingerprint or a signature is a SHA-256 of the content it is computed *)
(* from: here it is that content.  The builders and the projections are    *)
(* pure functions of their arguments: here they are constant operators.    *)
(***************************************************************************)
EXTENDS Naturals, Sequences

CONSTANTS
  Inputs,          \* what the raw capture may translate to
  EvidenceIds,     \* evidence_set_id values
  EFRefs,          \* product refs of the three families
  RSRefs,
  CPRefs,
  Kernels,         \* kernel contents
  DetailRows,      \* contents of detail files
  NoEvidence,      \* the input yields no evidence set
  NoClaims,        \* the input yields no claim set
  Absent,          \* no such product, or no prior value (None)
  Missing,         \* there is no such file
  Unreadable,      \* the file exists and reading it raises
  Partial,         \* a torn CSV file that still parses, to fewer rows
  NoPlan,          \* the summary is missing or cannot be read
  MaxCrashes,      \* bound on crashes
  MaxDisturbances, \* bound on product files changed behind the program
  BuildEconomicFacts(_),              \* of a claim set
  BuildReconciliationStates(_, _, _), \* of economic facts, claim set, evidence id
  BuildCheckpoints(_),                \* of reconciliation states
  ProjectEconomicFacts(_, _, _),      \* file kind, economic facts, input
  ProjectSnapshots(_),                \* reconciliation state
  ProjectReferences(_, _, _)          \* checkpoint, reconciliation states, input

Refs == EFRefs \cup RSRefs \cup CPRefs
Modes == {"auto", "full-update", "rebuild"}
Stages == {"EF", "RS", "CP"}
DetailKinds == {"facts", "annotations", "snapshots", "references"}
Files == Refs \X ({"kernel"} \cup DetailKinds)
UpstreamFiles == EvidenceIds \X {"evidence_set", "claim_set"}
MirrorKinds == DetailKinds \cup {"records"}

Family(s) == CASE s = "EF" -> EFRefs [] s = "RS" -> RSRefs [] s = "CP" -> CPRefs

DetailFiles(s) ==
  CASE s = "EF" -> << "facts", "annotations" >>
    [] s = "RS" -> << "snapshots" >>
    [] s = "CP" -> << "references" >>

KindsOf(s) == {DetailFiles(s)[n] : n \in DOMAIN DetailFiles(s)}

(* The ways a run ends early: the profile is refused before anything is    *)
(* written, or translation-input planning is blocked.                      *)
Outcomes == {"refused", "blocked", "translates"}

(* The products of an input: what a run that reuses nothing would build.   *)
EconomicFactsOf(i) == BuildEconomicFacts(i.claims)
ReconciliationStatesOf(i) ==
  BuildReconciliationStates(EconomicFactsOf(i), i.claims, i.evidence)
CheckpointsOf(i) == BuildCheckpoints(ReconciliationStatesOf(i))
ProductsOf(i) ==
  [r \in Refs |-> IF i.claims = NoClaims THEN Absent
                  ELSE IF r \in EFRefs THEN EconomicFactsOf(i)[r]
                  ELSE IF r \in RSRefs THEN ReconciliationStatesOf(i)[r]
                  ELSE CheckpointsOf(i)[r]]

MaybeKernels == Kernels \cup {Absent}

ASSUME FamiliesDisjoint ==
  EFRefs \cap RSRefs = {} /\ EFRefs \cap CPRefs = {} /\ RSRefs \cap CPRefs = {}

ASSUME SentinelsDistinct ==
  /\ {Absent, Missing, Unreadable, Partial} \cap (Kernels \cup DetailRows) = {}
  /\ Missing \notin {Absent, Unreadable, Partial} /\ Unreadable \notin {Absent, Partial}
  /\ Absent # Partial /\ NoEvidence \notin EvidenceIds
  /\ \A s \in Stages : Absent \notin [KindsOf(s) -> DetailRows]

ASSUME BoundsAreNaturals == MaxCrashes \in Nat /\ MaxDisturbances \in Nat

(* A claim set carries the id of the evidence set it was read from, so     *)
(* equal claim sets have equal evidence ids; without evidence there are no *)
(* claims.                                                                 *)
ASSUME SomeInput == Inputs # {}
ASSUME InputsWellFormed ==
  \A i \in Inputs :
    /\ i.outcome \in Outcomes
    /\ i.evidence \in EvidenceIds \cup {NoEvidence}
    /\ i.claims # NoClaims => i.evidence # NoEvidence
    /\ \A j \in Inputs : i.claims = j.claims /\ i.claims # NoClaims => i.evidence = j.evidence

(* The rows a detail file should hold. *)
Project(p, i, r, k) ==
  IF r \in EFRefs THEN ProjectEconomicFacts(k, p[r], i)
  ELSE IF r \in RSRefs THEN ProjectSnapshots(p[r])
  ELSE ProjectReferences(p[r], [q \in RSRefs |-> p[q]], i)

(* The builders return a kernel for each product they build, and always    *)
(* exactly one EconomicFacts.                                              *)
ASSUME BuildersTyped ==
  \A i \in Inputs : i.claims # NoClaims =>
    /\ EconomicFactsOf(i) \in [EFRefs -> MaybeKernels]
    /\ \E r \in EFRefs : \A q \in EFRefs : EconomicFactsOf(i)[q] # Absent <=> q = r
    /\ ReconciliationStatesOf(i) \in [RSRefs -> MaybeKernels]
    /\ CheckpointsOf(i) \in [CPRefs -> MaybeKernels]
    /\ \A s \in Stages : \A r \in Family(s) : \A k \in KindsOf(s) :
         ProductsOf(i)[r] # Absent => Project(ProductsOf(i), i, r, k) \in DetailRows

-----------------------------------------------------------------------------

VARIABLES
  raw,          \* the raw capture's current content
  upstream,     \* evidence_set.json and claim_set.json, per evidence set id
  disk,         \* kernel and detail files of the products
  mirror,       \* capture-local mirror files
  summary,      \* the plan in normalization_summary.json
  pc,           \* where the current run is
  mode,         \* its --update-mode
  input,        \* the raw content it read
  prior,        \* the plan it loaded
  stage,        \* the family it is bringing up to date
  todo,         \* products of that family still to process
  cur,          \* the product being processed
  products,     \* current kernels, by ref
  built,        \* whether the family's kernels were built or read back
  invalid,      \* refs whose kernel on disk was found unreadable or different
  kernelAction,
  detailAction,
  rows,         \* detail rows gathered for the mirrors
  writing,      \* index of the next detail file to write
  crashes,
  disturbances,
  exposed       \* history: a crash or disturbance since the last full refresh

store == << raw, upstream, disk, mirror, summary >>
local == << mode, input, prior, stage, todo, cur, products, built, invalid,
            kernelAction, detailAction, rows, writing >>
faults == << crashes, disturbances, exposed >>
vars == << store, pc, local, faults >>

NoProducts == [r \in Refs |-> Absent]
AnyInput == CHOOSE i \in Inputs : TRUE
NoRows == [f \in Files |-> Absent]

-----------------------------------------------------------------------------
(* Reading the files. *)

KernelFile(r) == << r, "kernel" >>
IsFile(f) == disk[f] # Missing
Current(s) == {r \in Family(s) : products[r] # Absent}
PriorRefs(s) == IF prior = NoPlan THEN {} ELSE {r \in Family(s) : prior.products[r] # Absent}

(* An existing kernel whose fingerprint is not the expected one; an        *)
(* unreadable file has none.                                               *)
Mismatch(r, expected) == IsFile(KernelFile(r)) /\ disk[KernelFile(r)] # expected

-----------------------------------------------------------------------------
(* Resolving a family: may the prior kernels stand for the current ones?   *)

AllReused(s) == \A r \in Current(s) : kernelAction[r] = "reused"

(* Mutant: the claim set the prior plan was made from is not compared.     *)
CanUsePriorOfOtherClaims ==
  /\ mode # "rebuild"
  /\ prior # NoPlan
  /\ \A r \in PriorRefs(stage) : IsFile(KernelFile(r))
  /\ stage \in {"EF", "RS"} => PriorRefs(stage) # {}
  /\ stage = "RS" => prior.evidence = input.evidence /\ AllReused("EF")
  /\ stage = "CP" => AllReused("RS")

CanUsePrior ==
  /\ mode # "rebuild"
  /\ prior # NoPlan
  /\ prior.claims = input.claims
  /\ \A r \in PriorRefs(stage) : IsFile(KernelFile(r))
  /\ stage \in {"EF", "RS"} => PriorRefs(stage) # {}
  /\ stage = "RS" => prior.evidence = input.evidence /\ AllReused("EF")
  /\ stage = "CP" => AllReused("RS")

PriorMismatches == {r \in PriorRefs(stage) : Mismatch(r, prior.products[r])}

Build(s) ==
  CASE s = "EF" -> BuildEconomicFacts(input.claims)
    [] s = "RS" -> BuildReconciliationStates([r \in EFRefs |-> products[r]],
                                             input.claims, input.evidence)
    [] s = "CP" -> BuildCheckpoints([r \in RSRefs |-> products[r]])

(* Mutant: prior kernels are loaded without validating their fingerprints. *)
UsePriorUnvalidated == CanUsePrior

UsePrior == CanUsePrior /\ PriorMismatches = {}

Resolved(s) ==
  IF UsePrior
  THEN [r \in Family(s) |-> IF r \in PriorRefs(s) THEN disk[KernelFile(r)] ELSE Absent]
  ELSE Build(s)

(* EconomicFacts alone also inspects a kernel already at its ref when the  *)
(* prior one cannot stand for it.                                          *)
InvalidOnResolve ==
  IF CanUsePrior THEN PriorMismatches
  ELSE IF stage = "EF" THEN {r \in EFRefs : Build("EF")[r] # Absent /\ Mismatch(r, Build("EF")[r])}
  ELSE {}

-----------------------------------------------------------------------------
(* Deciding what to do with one product. *)

(* A family other than EconomicFacts checks each kernel once more against  *)
(* the fingerprint the prior plan recorded for its ref.                    *)
KernelInvalid(r) ==
  IF stage = "EF" THEN invalid # {}
  ELSE r \in invalid \/ (r \in PriorRefs(stage) /\ Mismatch(r, prior.products[r]))

(* EconomicFacts compares with the one prior EconomicFacts, whatever its   *)
(* ref; the others with the prior product of the same ref.                 *)
PriorFingerprint(r) ==
  LET comparable == IF stage = "EF" THEN PriorRefs("EF") ELSE PriorRefs(stage) \cap {r}
  IN  IF KernelInvalid(r) \/ comparable = {} THEN Absent
      ELSE prior.products[CHOOSE q \in comparable : TRUE]

KernelReusable(r) ==
  /\ mode # "rebuild"
  /\ IsFile(KernelFile(r)) /\ ~KernelInvalid(r)
  /\ PriorFingerprint(r) = products[r]

Signature(r) == [k \in KindsOf(stage) |-> Project(products, input, r, k)]

(* Mutant: the projection signatures of the prior plan are not loaded.     *)
PriorSignatureNotLoaded(r) == Absent

PriorSignature(r) == IF r \in PriorRefs(stage) THEN prior.signatures[r] ELSE Absent

(* Mutants: details are reused without falling back when reading them      *)
(* raises; in full-update mode too.                                        *)
DetailReusableUnread(r) ==
  /\ mode = "auto"
  /\ kernelAction[r] = "reused"
  /\ PriorSignature(r) = Signature(r)
  /\ \A k \in KindsOf(stage) : disk[<< r, k >>] # Missing
DetailReusableInFullUpdate(r) ==
  /\ mode # "rebuild"
  /\ kernelAction[r] = "reused"
  /\ PriorSignature(r) = Signature(r)
  /\ \A k \in KindsOf(stage) : disk[<< r, k >>] \notin {Missing, Unreadable}

(* decide_detail_action, then the attempt to read the files it would reuse.*)
(* The files' contents are never compared with the signature.              *)
DetailReusable(r) ==
  /\ mode = "auto"
  /\ kernelAction[r] = "reused"
  /\ PriorSignature(r) = Signature(r)
  /\ \A k \in KindsOf(stage) : disk[<< r, k >>] \notin {Missing, Unreadable}

-----------------------------------------------------------------------------
(* The plan written to the summary. *)

FamilyOf(r) == CASE r \in EFRefs -> "EF" [] r \in RSRefs -> "RS" [] r \in CPRefs -> "CP"

SignaturesOf(p, i) ==
  [r \in Refs |-> IF p[r] = Absent THEN Absent
                  ELSE [k \in KindsOf(FamilyOf(r)) |-> Project(p, i, r, k)]]

PlanWith(p, i) ==
  [claims |-> i.claims, evidence |-> i.evidence, products |-> p, signatures |-> SignaturesOf(p, i)]

(* What a run that builds everything records for an input; it is a plan.   *)
PlanFor(i) == PlanWith(ProductsOf(i), i)

ASSUME PlansArePlans == \A i \in Inputs : PlanFor(i) # NoPlan

(* Mutant: a product the prior plan names keeps its recorded signature.    *)
PlanOfKnown ==
  [PlanWith(products, input) EXCEPT
     !.signatures = [r \in Refs |-> IF prior # NoPlan /\ products[r] # Absent
                                       /\ prior.products[r] # Absent
                                    THEN prior.signatures[r] ELSE @[r]]]

Plan == PlanWith(products, input)

FamilyOfKind(k) ==
  CASE k \in {"facts", "annotations"} -> "EF"
    [] k = "snapshots" -> "RS"
    [] k = "references" -> "CP"

(* What the mirrors hold: the gathered rows of the current products, the   *)
(* drafts when there are none, and in "records" (issues, reviews, location *)
(* inventory) always the current translation.                              *)
FromDrafts == [r \in {Absent} |-> input]
MirrorRows(k) ==
  IF k = "records" \/ input.claims = NoClaims THEN FromDrafts
  ELSE [r \in Current(FamilyOfKind(k)) |-> rows[<< r, k >>]]

MirrorOrder == << "facts", "annotations", "snapshots", "references", "records" >>

(* Mutant: a capture that no longer has claims prunes nothing.             *)
PrunedWithClaims ==
  IF prior = NoPlan \/ input.claims = NoClaims THEN {}
  ELSE {r \in Refs : prior.products[r] # Absent /\ products[r] = Absent}

Pruned == IF prior = NoPlan THEN {}
          ELSE {r \in Refs : prior.products[r] # Absent /\ products[r] = Absent}

-----------------------------------------------------------------------------

ClearedLocals ==
  /\ mode' = "auto" /\ input' = AnyInput /\ prior' = NoPlan
  /\ stage' = "EF" /\ todo' = {} /\ cur' = Absent /\ products' = NoProducts
  /\ built' = FALSE /\ invalid' = {} /\ kernelAction' = NoProducts
  /\ detailAction' = NoProducts /\ rows' = NoRows /\ writing' = 1

Init ==
  /\ raw \in Inputs
  /\ upstream = [f \in UpstreamFiles |-> Missing]
  /\ disk = [f \in Files |-> Missing]
  /\ mirror = [k \in MirrorKinds |-> Missing]
  /\ summary = NoPlan
  /\ pc = "idle"
  /\ mode = "auto" /\ input = AnyInput /\ prior = NoPlan
  /\ stage = "EF" /\ todo = {} /\ cur = Absent /\ products = NoProducts
  /\ built = FALSE /\ invalid = {} /\ kernelAction = NoProducts
  /\ detailAction = NoProducts /\ rows = NoRows /\ writing = 1
  /\ crashes = 0 /\ disturbances = 0 /\ exposed = FALSE

(* The operator replaces or edits raw files, or changes the window.        *)
EditRaw(i) ==
  /\ pc = "idle" /\ i # raw
  /\ raw' = i
  /\ UNCHANGED << upstream, disk, mirror, summary, pc, local, faults >>

(* A product file is removed, damaged or replaced between runs.            *)
Disturb(f, c) ==
  /\ pc = "idle" /\ disturbances < MaxDisturbances
  /\ c # disk[f]
  /\ disk' = [disk EXCEPT ![f] = c]
  /\ disturbances' = disturbances + 1 /\ exposed' = TRUE
  /\ UNCHANGED << raw, upstream, mirror, summary, pc, local, crashes >>

-----------------------------------------------------------------------------
(* A run. *)

StartNormalize(m) ==
  /\ pc = "idle" /\ raw.outcome # "refused"
  /\ pc' = "evidence" /\ mode' = m /\ input' = raw
  /\ UNCHANGED << store, prior, stage, todo, cur, products, built, invalid,
                  kernelAction, detailAction, rows, writing, faults >>

(* The evidence set is persisted before a blocked plan raises. *)
WriteEvidenceSet ==
  /\ pc = "evidence"
  /\ upstream' = IF input.evidence = NoEvidence THEN upstream
                 ELSE [upstream EXCEPT ![<< input.evidence, "evidence_set" >>] = input.details]
  /\ UNCHANGED << raw, disk, mirror, summary, faults >>
  /\ IF input.outcome = "blocked"
     THEN pc' = "idle" /\ ClearedLocals
     ELSE pc' = "claims" /\ UNCHANGED local

(* build_target_product_execution starts by loading the prior plan.        *)
WriteClaimSet ==
  /\ pc = "claims"
  /\ upstream' = IF input.claims = NoClaims THEN upstream
                 ELSE [upstream EXCEPT ![<< input.evidence, "claim_set" >>] = input.claims]
  /\ prior' = summary
  /\ pc' = IF input.claims = NoClaims THEN "prune" ELSE "resolve"
  /\ UNCHANGED << raw, disk, mirror, summary, mode, input, stage, todo, cur, products,
                  built, invalid, kernelAction, detailAction, rows, writing, faults >>

ResolveKernels ==
  /\ pc = "resolve"
  /\ products' = [r \in Refs |-> IF r \in Family(stage) THEN Resolved(stage)[r] ELSE products[r]]
  /\ built' = ~UsePrior
  /\ invalid' = InvalidOnResolve
  /\ todo' = {r \in Family(stage) : products'[r] # Absent}
  /\ pc' = "kernel"
  /\ UNCHANGED << store, mode, input, prior, stage, cur, kernelAction, detailAction,
                  rows, writing, faults >>

ReuseKernel(r) ==
  /\ pc = "kernel" /\ r \in todo /\ KernelReusable(r)
  /\ kernelAction' = [kernelAction EXCEPT ![r] = "reused"]
  /\ cur' = r /\ pc' = "detail"
  /\ UNCHANGED << store, mode, input, prior, stage, todo, products, built,
                  invalid, detailAction, rows, writing, faults >>

RebuildKernel(r) ==
  /\ pc = "kernel" /\ r \in todo /\ ~KernelReusable(r)
  /\ disk' = [disk EXCEPT ![KernelFile(r)] = products[r]]
  /\ kernelAction' = [kernelAction EXCEPT ![r] = "rebuilt"]
  /\ cur' = r /\ pc' = "detail"
  /\ UNCHANGED << raw, upstream, mirror, summary, mode, input, prior, stage, todo,
                  products, built, invalid, detailAction, rows, writing, faults >>

ReuseDetail ==
  /\ pc = "detail" /\ DetailReusable(cur)
  /\ detailAction' = [detailAction EXCEPT ![cur] = "reused"]
  /\ rows' = [f \in Files |-> IF f[1] = cur /\ f[2] \in KindsOf(stage) THEN disk[f] ELSE rows[f]]
  /\ todo' = todo \ {cur} /\ pc' = "kernel"
  /\ UNCHANGED << store, mode, input, prior, stage, cur, products, built, invalid,
                  kernelAction, writing, faults >>

DecideRefresh ==
  /\ pc = "detail" /\ ~DetailReusable(cur)
  /\ detailAction' = [detailAction EXCEPT ![cur] = "refreshed"]
  /\ writing' = 1 /\ pc' = "refresh"
  /\ UNCHANGED << store, mode, input, prior, stage, todo, cur, products, built,
                  invalid, kernelAction, rows, faults >>

Refreshing == << cur, DetailFiles(stage)[writing] >>

RefreshDetail ==
  /\ pc = "refresh"
  /\ LET new == Project(products, input, cur, DetailFiles(stage)[writing]) IN
       /\ disk' = [disk EXCEPT ![Refreshing] = new]
       /\ rows' = [rows EXCEPT ![Refreshing] = new]
  /\ IF writing = Len(DetailFiles(stage))
     THEN pc' = "kernel" /\ todo' = todo \ {cur} /\ writing' = 1
     ELSE pc' = pc /\ todo' = todo /\ writing' = writing + 1
  /\ UNCHANGED << raw, upstream, mirror, summary, mode, input, prior, stage, cur,
                  products, built, invalid, kernelAction, detailAction, faults >>

FinishStage ==
  /\ pc = "kernel" /\ todo = {}
  /\ stage' = CASE stage = "EF" -> "RS" [] stage = "RS" -> "CP" [] stage = "CP" -> "CP"
  /\ pc' = IF stage = "CP" THEN "prune" ELSE "resolve"
  /\ UNCHANGED << store, mode, input, prior, todo, cur, products, built, invalid,
                  kernelAction, detailAction, rows, writing, faults >>

(* prune_product_roots for the three families. *)
Prune ==
  /\ pc = "prune"
  /\ disk' = [f \in Files |-> IF f[1] \in Pruned THEN Missing ELSE disk[f]]
  /\ pc' = "mirrors"
  /\ UNCHANGED << raw, upstream, mirror, summary, local, faults >>

WriteMirrors ==
  /\ pc = "mirrors"
  /\ mirror' = [k \in MirrorKinds |-> MirrorRows(k)]
  /\ pc' = "summary"
  /\ UNCHANGED << raw, upstream, disk, summary, local, faults >>

(* The summary is the commit point of a run. *)
WriteSummary ==
  /\ pc = "summary"
  /\ summary' = Plan
  /\ pc' = "published"
  /\ exposed' = (exposed /\ mode = "auto")
  /\ UNCHANGED << raw, upstream, disk, mirror, local, crashes, disturbances >>

(* The capture's status record is appended and the run returns. *)
EndRun ==
  /\ pc = "published"
  /\ pc' = "idle" /\ ClearedLocals
  /\ UNCHANGED << store, faults >>

-----------------------------------------------------------------------------
(* Crashes: everything in memory is lost; the file being written may be torn. *)

Abort ==
  /\ pc # "idle" /\ crashes < MaxCrashes
  /\ pc' = "idle" /\ ClearedLocals
  /\ crashes' = crashes + 1 /\ exposed' = TRUE
  /\ UNCHANGED << raw, disturbances >>

TornContents(k) == IF k \in {"facts", "snapshots", "references"}
                   THEN {Unreadable, Partial} ELSE {Unreadable}

CrashBetweenSteps == Abort /\ UNCHANGED << upstream, disk, mirror, summary >>

CrashWritingUpstream ==
  /\ \/ pc = "evidence" /\ input.evidence # NoEvidence
        /\ upstream' = [upstream EXCEPT ![<< input.evidence, "evidence_set" >>] = Unreadable]
     \/ pc = "claims" /\ input.claims # NoClaims
        /\ upstream' = [upstream EXCEPT ![<< input.evidence, "claim_set" >>] = Unreadable]
  /\ Abort /\ UNCHANGED << disk, mirror, summary >>

CrashWritingKernel(r) ==
  /\ pc = "kernel" /\ r \in todo /\ ~KernelReusable(r)
  /\ disk' = [disk EXCEPT ![KernelFile(r)] = Unreadable]
  /\ Abort /\ UNCHANGED << upstream, mirror, summary >>

CrashWritingDetail ==
  /\ pc = "refresh"
  /\ \E torn \in TornContents(DetailFiles(stage)[writing]) :
       disk' = [disk EXCEPT ![Refreshing] = torn]
  /\ Abort /\ UNCHANGED << upstream, mirror, summary >>

(* rmtree removes a root file by file. *)
CrashPruning ==
  /\ pc = "prune"
  /\ \E gone \in SUBSET {f \in Files : f[1] \in Pruned /\ IsFile(f)} :
       /\ gone # {}
       /\ disk' = [f \in Files |-> IF f \in gone THEN Missing ELSE disk[f]]
  /\ Abort /\ UNCHANGED << upstream, mirror, summary >>

(* The mirrors are written one after the other: some are new, one is torn, *)
(* the rest are old.                                                       *)
CrashWritingMirrors ==
  /\ pc = "mirrors"
  /\ \E n \in DOMAIN MirrorOrder : \E torn \in TornContents(MirrorOrder[n]) :
       mirror' = [k \in MirrorKinds |->
                    CASE k = MirrorOrder[n] -> torn
                      [] \E m \in 1 .. n - 1 : k = MirrorOrder[m] -> MirrorRows(k)
                      [] OTHER -> mirror[k]]
  /\ Abort /\ UNCHANGED << upstream, disk, summary >>

(* A torn summary does not parse: the next run has no prior plan. *)
CrashWritingSummary ==
  /\ pc = "summary" /\ summary' = NoPlan
  /\ Abort /\ UNCHANGED << upstream, disk, mirror >>

Crash == \/ CrashBetweenSteps \/ CrashWritingUpstream \/ (\E r \in Refs : CrashWritingKernel(r))
         \/ CrashWritingDetail \/ CrashPruning \/ CrashWritingMirrors \/ CrashWritingSummary

-----------------------------------------------------------------------------

RunStep ==
  \/ WriteEvidenceSet \/ WriteClaimSet \/ ResolveKernels
  \/ (\E r \in Refs : ReuseKernel(r) \/ RebuildKernel(r))
  \/ ReuseDetail \/ DecideRefresh \/ RefreshDetail \/ FinishStage
  \/ Prune \/ WriteMirrors \/ WriteSummary \/ EndRun

Damage(f) == {Missing, Unreadable} \cup (IF f[2] = "kernel" THEN Kernels ELSE {})

Next ==
  \/ \E i \in Inputs : EditRaw(i)
  \/ \E f \in Files : \E c \in Damage(f) : Disturb(f, c)
  \/ \E m \in Modes : StartNormalize(m)
  \/ RunStep
  \/ Crash

Spec == Init /\ [][Next]_vars

-----------------------------------------------------------------------------
(* The contract of a run.                                                  *)

Phase == IF pc = "published" THEN pc ELSE IF pc = "idle" THEN pc ELSE "working"
Contract == INSTANCE NormalizeContract WITH
  Contents <- Inputs,
  Values <- Kernels \cup DetailRows \cup {Missing, Unreadable, Partial},
  Nothing <- NoPlan,
  content <- raw, phase <- Phase, plan <- summary,
  kernels <- [r \in Refs |-> disk[KernelFile(r)]]

-----------------------------------------------------------------------------
(* Properties. *)

TypeOK ==
  /\ raw \in Inputs /\ input \in Inputs
  /\ DOMAIN upstream = UpstreamFiles
  /\ disk \in [Files -> Kernels \cup DetailRows \cup {Missing, Unreadable, Partial}]
  /\ DOMAIN mirror = MirrorKinds
  /\ pc \in {"idle", "evidence", "claims", "resolve", "kernel", "detail", "refresh",
             "prune", "mirrors", "summary", "published"}
  /\ mode \in Modes /\ stage \in Stages
  /\ \A p \in {summary, prior} : p # NoPlan => p.products \in [Refs -> MaybeKernels]
  /\ todo \subseteq Family(stage) /\ cur \in Refs \cup {Absent}
  /\ products \in [Refs -> MaybeKernels]
  /\ built \in BOOLEAN /\ invalid \subseteq Refs
  /\ kernelAction \in [Refs -> {"reused", "rebuilt", Absent}]
  /\ detailAction \in [Refs -> {"reused", "refreshed", Absent}]
  /\ rows \in [Files -> Kernels \cup DetailRows \cup {Absent, Partial}]
  /\ writing \in {1, 2}
  /\ crashes \in 0 .. MaxCrashes /\ disturbances \in 0 .. MaxDisturbances
  /\ exposed \in BOOLEAN

(* Whatever was reused, and whatever crashes and damaged files came before, *)
(* a run that writes its summary leaves every product kernel, the claim set *)
(* and the evidence set exactly as building them from the raw capture would. *)
KernelsAuthoritative ==
  pc = "published" =>
    /\ summary.products = ProductsOf(input)
    /\ \A r \in Refs : ProductsOf(input)[r] # Absent =>
                        disk[KernelFile(r)] = ProductsOf(input)[r]
    /\ input.evidence # NoEvidence =>
         upstream[<< input.evidence, "evidence_set" >>] = input.details
    /\ input.claims # NoClaims =>
         upstream[<< input.evidence, "claim_set" >>] = input.claims

TruthRows(r, k) == Project(ProductsOf(input), input, r, k)
CurrentFamily(k) == {r \in Family(FamilyOfKind(k)) : ProductsOf(input)[r] # Absent}

MirrorsTrue ==
  \A k \in MirrorKinds :
    mirror[k] = IF k = "records" \/ input.claims = NoClaims THEN FromDrafts
                ELSE [r \in CurrentFamily(k) |-> TruthRows(r, k)]

(* Details and mirrors are those of the current input after every run that *)
(* refreshes all details (full-update, rebuild), and stay so through any    *)
(* sequence of automatic reruns and edits until the next crash or damage:   *)
(* one full-update repairs whatever a crash left behind.                    *)
RefreshHeals ==
  pc = "published" /\ ~exposed =>
    /\ MirrorsTrue
    /\ \A k \in DetailKinds : \A r \in CurrentFamily(k) : disk[<< r, k >>] = TruthRows(r, k)

(* As documented, without the exception for crashes: after every run the    *)
(* mirror files hold the current authoritative truth.                       *)
MirrorsFromTruth == pc = "published" => MirrorsTrue

Stale == {r \in Refs : /\ ProductsOf(input)[r] = Absent
                       /\ \E k \in {"kernel"} \cup DetailKinds : IsFile(<< r, k >>)}

(* While nothing crashes and nobody touches the product files, a finished   *)
(* run leaves no product of an earlier input on disk, whichever inputs,     *)
(* blocked plans and claim-less captures came in between.                   *)
NothingStale == pc = "published" /\ crashes = 0 /\ disturbances = 0 => Stale = {}

(* runtime.py asserts that an EconomicFacts kernel it writes was built, not *)
(* read back.                                                               *)
RebuiltKernelWasBuilt ==
  pc = "detail" /\ stage = "EF" /\ kernelAction[cur] = "rebuilt" => built

(* The files of the input's products are the ones a previous run published. *)
KernelsIntact ==
  /\ summary # NoPlan /\ prior = summary
  /\ summary.claims = input.claims /\ summary.products = ProductsOf(input)
  /\ \A r \in Refs : summary.products[r] # Absent => disk[KernelFile(r)] = summary.products[r]

DetailsIntact ==
  /\ \A r \in Refs : kernelAction[r] # "rebuilt"
  /\ \A k \in DetailKinds : \A r \in CurrentFamily(k) :
       /\ summary.signatures[r][k] = TruthRows(r, k)
       /\ disk[<< r, k >>] \notin {Missing, Unreadable}

(* A rerun on unchanged claims rewrites no intact kernel, and an automatic  *)
(* rerun refreshes no detail either, at any stage of the chain.             *)
UnchangedIsReused ==
  [][KernelsIntact => /\ mode # "rebuild" => ~\E r \in Refs : RebuildKernel(r)
                      /\ mode = "auto" /\ DetailsIntact => ~DecideRefresh]_vars

(* Whoever reads the plan and the kernels sees a run replace them at once    *)
(* and wholly: the recorded products and signatures are those of the raw     *)
(* capture as it is, held by the kernel files, or the plan did not change.   *)
ImplementsContract == Contract!Spec
=============================================================================
