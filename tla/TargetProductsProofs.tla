----------------------- MODULE TargetProductsProofs -----------------------
(***************************************************************************)
(* Proofs about TargetProducts: whatever the contents, builders, number of *)
(* crashes and of damaged files, a run that publishes leaves the kernels   *)
(* that building from the raw capture would give.                          *)
(***************************************************************************)
EXTENDS TargetProducts, TLAPS

(* The families resolved before stage s. *)
Before(s) == CASE s = "EF" -> {} [] s = "RS" -> EFRefs [] s = "CP" -> EFRefs \cup RSRefs

Right(S) == \A r \in S : products[r] = ProductsOf(input)[r]
OnDisk(S) == \A r \in S : products[r] # Absent => disk[KernelFile(r)] = products[r]

(* A recorded plan names the products of some input with its claims.       *)
PlanSound(p) ==
  p # NoPlan => /\ p.products \in [Refs -> MaybeKernels]
                /\ \E i \in Inputs : p.claims = i.claims /\ p.products = ProductsOf(i)

Writers == {"kernel", "detail", "refresh"}
Finishing == {"prune", "mirrors", "summary", "published"}

(* How far each phase of a run has got. *)
Progress ==
  /\ pc \in {"idle", "evidence", "claims"} => products = NoProducts /\ stage = "EF" /\ todo = {}
  /\ pc \in {"resolve"} \cup Writers => input.claims # NoClaims
  /\ pc = "resolve" => Right(Before(stage)) /\ OnDisk(Before(stage)) /\ todo = {}
  /\ pc \in Writers =>
       /\ Right(Before(stage) \cup Family(stage))
       /\ OnDisk((Before(stage) \cup Family(stage)) \ todo)
       /\ \A r \in todo : products[r] # Absent
       /\ stage = "EF" /\ invalid = {} =>
            \A r \in todo : IsFile(KernelFile(r)) => disk[KernelFile(r)] = products[r]
  /\ pc \in {"detail", "refresh"} => cur \in todo /\ disk[KernelFile(cur)] = products[cur]
  /\ pc = "refresh" => writing = 1 \/ (stage = "EF" /\ writing = 2)
  /\ pc \in Finishing => products = ProductsOf(input) /\ OnDisk(Refs)
  /\ pc = "published" => summary.products = products

UpstreamWritten ==
  /\ pc \notin {"idle", "evidence"} /\ input.evidence # NoEvidence =>
       upstream[<< input.evidence, "evidence_set" >>] = input.details
  /\ pc \notin {"idle", "evidence", "claims"} /\ input.claims # NoClaims =>
       upstream[<< input.evidence, "claim_set" >>] = input.claims

IInv == TypeOK /\ PlanSound(summary) /\ PlanSound(prior) /\ Progress /\ UpstreamWritten

-----------------------------------------------------------------------------
(* Facts about the constants. *)

(* CHOOSE picks an input. *)
LEMMA AnyInputIsInput == AnyInput \in Inputs
  BY SomeInput DEF AnyInput

(* The families partition the refs. *)
LEMMA Families ==
  /\ Family("EF") = EFRefs /\ Family("RS") = RSRefs /\ Family("CP") = CPRefs
  /\ Before("EF") = {} /\ Before("RS") = EFRefs /\ Before("CP") = EFRefs \cup RSRefs
  /\ \A s \in Stages : Family(s) \subseteq Refs /\ Before(s) \subseteq Refs
                         /\ Family(s) \cap Before(s) = {}
  BY FamiliesDisjoint DEF Family, Before, Stages, Refs

(* The products of an input are a function of the refs. *)
LEMMA ProductsTyped == \A i \in Inputs : ProductsOf(i) \in [Refs -> MaybeKernels]
  BY BuildersTyped DEF ProductsOf, MaybeKernels, Refs

(* The claim set determines the products: equal claims, equal evidence id. *)
LEMMA SameClaims ==
  ASSUME NEW i \in Inputs, NEW j \in Inputs, i.claims = j.claims
  PROVE  ProductsOf(i) = ProductsOf(j)
<1>1. CASE i.claims = NoClaims
  BY <1>1 DEF ProductsOf
<1>2. CASE i.claims # NoClaims
  <2>1. i.evidence = j.evidence
    BY <1>2, InputsWellFormed
  <2>2. QED
    BY <2>1 DEF ProductsOf, EconomicFactsOf, ReconciliationStatesOf, CheckpointsOf
<1>3. QED
  BY <1>1, <1>2

-----------------------------------------------------------------------------
(* What resolving a family returns. *)

(* Building a family after the earlier ones were resolved rightly gives    *)
(* the products of the input.                                              *)
LEMMA BuildIsTruth ==
  ASSUME TypeOK, input.claims # NoClaims, Right(Before(stage))
  PROVE  \A r \in Family(stage) : Build(stage)[r] = ProductsOf(input)[r]
<1> USE BuildersTyped
<1>0. input \in Inputs /\ stage \in Stages
  BY DEF TypeOK
<1>1. CASE stage = "EF"
  BY <1>0, <1>1, Families DEF Build, ProductsOf, EconomicFactsOf, Refs
<1>2. CASE stage = "RS"
  <2>1. \A r \in EFRefs : products[r] = EconomicFactsOf(input)[r]
    BY <1>2, Families DEF Right, ProductsOf, Refs
  <2>2. [r \in EFRefs |-> products[r]] = EconomicFactsOf(input)
    BY <2>1, <1>0
  <2>3. Build("RS") = ReconciliationStatesOf(input)
    BY <2>2 DEF Build, ReconciliationStatesOf
  <2>4. QED
    BY <1>2, <2>3, Families, FamiliesDisjoint DEF ProductsOf, Refs
<1>3. CASE stage = "CP"
  <2>1. \A r \in RSRefs : products[r] = ReconciliationStatesOf(input)[r]
    BY <1>3, Families, FamiliesDisjoint DEF Right, ProductsOf, Refs
  <2>2. [r \in RSRefs |-> products[r]] = ReconciliationStatesOf(input)
    BY <2>1, <1>0
  <2>3. Build("CP") = CheckpointsOf(input)
    BY <2>2 DEF Build, CheckpointsOf
  <2>4. QED
    BY <1>3, <2>3, Families, FamiliesDisjoint DEF ProductsOf, Refs
<1>4. QED
  BY <1>0, <1>1, <1>2, <1>3 DEF Stages

(* A sound prior plan with the current claims names the current products.  *)
LEMMA PriorIsTruth ==
  ASSUME TypeOK, PlanSound(prior), prior # NoPlan, prior.claims = input.claims
  PROVE  prior.products = ProductsOf(input)
<1>1. PICK i \in Inputs : prior.claims = i.claims /\ prior.products = ProductsOf(i)
  BY DEF PlanSound
<1>2. input \in Inputs
  BY DEF TypeOK
<1>3. QED
  BY <1>1, <1>2, SameClaims

(* Reusing or building, a family resolves to the products of the input.    *)
LEMMA ResolvedIsTruth ==
  ASSUME TypeOK, PlanSound(prior), input.claims # NoClaims, Right(Before(stage))
  PROVE  \A r \in Family(stage) : Resolved(stage)[r] = ProductsOf(input)[r]
<1>0. input \in Inputs /\ stage \in Stages
  BY DEF TypeOK
<1>1. CASE UsePrior
  <2>1. prior # NoPlan /\ prior.products = ProductsOf(input)
    BY <1>1, PriorIsTruth DEF UsePrior, CanUsePrior
  <2>2. ASSUME NEW r \in Family(stage) PROVE Resolved(stage)[r] = ProductsOf(input)[r]
    <3>1. CASE r \in PriorRefs(stage)
      <4>1. IsFile(KernelFile(r)) /\ ~Mismatch(r, prior.products[r])
        BY <1>1, <3>1 DEF UsePrior, CanUsePrior, PriorMismatches
      <4>2. disk[KernelFile(r)] = prior.products[r]
        BY <4>1 DEF Mismatch
      <4>3. QED
        BY <1>1, <2>1, <3>1, <4>2 DEF Resolved
    <3>2. CASE r \notin PriorRefs(stage)
      <4>1. prior.products[r] = Absent
        BY <2>1, <3>2 DEF PriorRefs
      <4>2. QED
        BY <1>1, <2>1, <3>2, <4>1 DEF Resolved
    <3>3. QED
      BY <3>1, <3>2
  <2>3. QED
    BY <2>2
<1>2. CASE ~UsePrior
  BY <1>2, BuildIsTruth DEF Resolved
<1>3. QED
  BY <1>1, <1>2

-----------------------------------------------------------------------------
(* The invariant is inductive. *)

DiskType == [Files -> Kernels \cup DetailRows \cup {Missing, Unreadable, Partial}]

(* The invariant holds initially. *)
LEMMA InitIInv == Init => IInv
<1> SUFFICES ASSUME Init PROVE IInv
  OBVIOUS
<1>0. /\ DOMAIN upstream = UpstreamFiles /\ disk \in DiskType /\ DOMAIN mirror = MirrorKinds
      /\ crashes \in 0 .. MaxCrashes /\ disturbances \in 0 .. MaxDisturbances
  BY BoundsAreNaturals DEF Init, DiskType
<1>1. TypeOK
  BY <1>0, AnyInputIsInput
  DEF Init, TypeOK, DiskType, NoProducts, NoRows, MaybeKernels, Modes, Stages
<1>2. PlanSound(summary) /\ PlanSound(prior) /\ UpstreamWritten
  BY DEF Init, PlanSound, UpstreamWritten
<1>3. Progress
  BY DEF Init, Progress, Writers, Finishing
<1>4. QED
  BY <1>1, <1>2, <1>3 DEF IInv

(* When a run ends, by returning, raising or dying, its memory is gone and *)
(* only the files matter.                                                  *)
LEMMA RunOver ==
  ASSUME IInv, pc' = "idle", ClearedLocals,
         raw' \in Inputs, DOMAIN upstream' = UpstreamFiles, disk' \in DiskType,
         DOMAIN mirror' = MirrorKinds, summary' = summary \/ summary' = NoPlan,
         crashes' \in 0 .. MaxCrashes, disturbances' \in 0 .. MaxDisturbances,
         exposed' \in BOOLEAN
  PROVE  IInv'
<1>1. TypeOK'
  BY AnyInputIsInput
  DEF IInv, TypeOK, ClearedLocals, DiskType, NoProducts, NoRows, MaybeKernels, Modes, Stages
<1>2. PlanSound(summary)' /\ PlanSound(prior)' /\ UpstreamWritten'
  BY DEF IInv, PlanSound, UpstreamWritten, ClearedLocals
<1>3. Progress'
  BY DEF ClearedLocals, Progress, Writers, Finishing
<1>4. QED
  BY <1>1, <1>2, <1>3 DEF IInv

(* A crash keeps the invariant, whichever file it tears. *)
LEMMA CrashIInv == ASSUME IInv, Crash PROVE IInv'
<1>0. disk \in DiskType /\ TypeOK /\ Abort
  BY DEF IInv, TypeOK, DiskType, Crash, CrashBetweenSteps, CrashWritingUpstream,
     CrashWritingKernel, CrashWritingDetail, CrashPruning, CrashWritingMirrors, CrashWritingSummary
<1>1. /\ pc' = "idle" /\ ClearedLocals /\ raw' \in Inputs
      /\ crashes' \in 0 .. MaxCrashes /\ disturbances' \in 0 .. MaxDisturbances
      /\ exposed' \in BOOLEAN
  BY <1>0, BoundsAreNaturals DEF Abort, TypeOK
<1>2. CASE CrashBetweenSteps
  BY <1>0, <1>1, <1>2, RunOver DEF CrashBetweenSteps, TypeOK
<1>3. CASE CrashWritingUpstream
  BY <1>0, <1>1, <1>3, RunOver DEF CrashWritingUpstream, TypeOK
<1>4. ASSUME NEW r \in Refs, CrashWritingKernel(r) PROVE IInv'
  <2>1. disk' \in DiskType
    BY <1>0, <1>4 DEF CrashWritingKernel, DiskType
  <2>2. QED
    BY <1>0, <1>1, <1>4, <2>1, RunOver DEF CrashWritingKernel, TypeOK
<1>5. CASE CrashWritingDetail
  <2>1. disk' \in DiskType
    BY <1>0, <1>5 DEF CrashWritingDetail, DiskType, TornContents
  <2>2. QED
    BY <1>0, <1>1, <1>5, <2>1, RunOver DEF CrashWritingDetail, TypeOK
<1>6. CASE CrashPruning
  <2>1. disk' \in DiskType
    BY <1>0, <1>6 DEF CrashPruning, DiskType
  <2>2. QED
    BY <1>0, <1>1, <1>6, <2>1, RunOver DEF CrashPruning, TypeOK
<1>7. CASE CrashWritingMirrors
  <2>1. DOMAIN mirror' = MirrorKinds
    BY <1>7 DEF CrashWritingMirrors
  <2>2. QED
    BY <1>0, <1>1, <1>7, <2>1, RunOver DEF CrashWritingMirrors, TypeOK
<1>8. CASE CrashWritingSummary
  BY <1>0, <1>1, <1>8, RunOver DEF CrashWritingSummary, TypeOK
<1>9. QED
  BY <1>2, <1>3, <1>4, <1>5, <1>6, <1>7, <1>8 DEF Crash

(* Edits of the raw capture and damage to product files happen between     *)
(* runs, when nothing is claimed of the files.                             *)
LEMMA EnvironmentIInv ==
  ASSUME IInv, (\E i \in Inputs : EditRaw(i)) \/ (\E f \in Files : \E c \in Damage(f) : Disturb(f, c))
  PROVE  IInv'
<1>1. ASSUME NEW i \in Inputs, EditRaw(i) PROVE IInv'
  <2>1. TypeOK'
    BY <1>1 DEF IInv, TypeOK, EditRaw, local, faults
  <2>2. (PlanSound(summary) /\ PlanSound(prior) /\ Progress /\ UpstreamWritten)'
    BY <1>1 DEF IInv, EditRaw, local, faults, PlanSound, UpstreamWritten, Progress,
       Writers, Finishing
  <2>3. QED
    BY <2>1, <2>2 DEF IInv
<1>2. ASSUME NEW f \in Files, NEW c \in Damage(f), Disturb(f, c) PROVE IInv'
  <2>0. c \in Kernels \cup {Missing, Unreadable}
    BY DEF Damage
  <2>1. disk' \in DiskType
    BY <1>2, <2>0 DEF IInv, TypeOK, Disturb, DiskType
  <2>2. TypeOK'
    BY <1>2, <2>1, BoundsAreNaturals DEF IInv, TypeOK, Disturb, local, DiskType
  <2>3. (PlanSound(summary) /\ PlanSound(prior) /\ Progress /\ UpstreamWritten)'
    BY <1>2 DEF IInv, Disturb, local, PlanSound, UpstreamWritten, Progress,
       Writers, Finishing
  <2>4. QED
    BY <2>2, <2>3 DEF IInv
<1>3. QED
  BY <1>1, <1>2

-----------------------------------------------------------------------------
(* The steps of a run. *)

(* A step that touches neither summary nor prior keeps both plans sound. *)
LEMMA PlansKept ==
  ASSUME IInv, UNCHANGED << summary, prior >>
  PROVE  PlanSound(summary)' /\ PlanSound(prior)'
  BY DEF IInv, PlanSound

(* Starting a run and writing the evidence and claim sets. *)
LEMMA TranslateIInv ==
  ASSUME IInv, (\E m \in Modes : StartNormalize(m)) \/ WriteEvidenceSet \/ WriteClaimSet
  PROVE  IInv'
<1>0. TypeOK /\ Progress /\ UpstreamWritten
  BY DEF IInv
<1>1. ASSUME NEW m \in Modes, StartNormalize(m) PROVE IInv'
  <2>1. TypeOK'
    BY <1>0, <1>1 DEF TypeOK, StartNormalize, store, faults
  <2>2. Progress' /\ UpstreamWritten'
    BY <1>0, <1>1 DEF Progress, UpstreamWritten, StartNormalize, Writers, Finishing
  <2>3. QED
    BY <1>1, <2>1, <2>2, PlansKept DEF IInv, StartNormalize, store
<1>2. CASE WriteEvidenceSet
  <2>0. input \in Inputs /\ (input.evidence # NoEvidence => input.evidence \in EvidenceIds)
    BY <1>0, InputsWellFormed DEF TypeOK
  <2>1. DOMAIN upstream' = UpstreamFiles
    BY <1>0, <1>2 DEF TypeOK, WriteEvidenceSet
  <2>2. CASE input.outcome = "blocked"
    BY <1>0, <1>2, <2>1, <2>2, RunOver DEF WriteEvidenceSet, TypeOK, DiskType, faults
  <2>3. CASE input.outcome # "blocked"
    <3>1. TypeOK'
      BY <1>0, <1>2, <2>1, <2>3 DEF TypeOK, WriteEvidenceSet, local, faults
    <3>2. Progress'
      BY <1>0, <1>2, <2>3 DEF Progress, WriteEvidenceSet, Writers, Finishing, local
    <3>3. UpstreamWritten'
      <4>1. /\ pc' = "claims" /\ input' = input
            /\ input.evidence # NoEvidence =>
                 upstream' = [upstream EXCEPT ![<< input.evidence, "evidence_set" >>] = input.details]
        BY <1>2, <2>3 DEF WriteEvidenceSet, local
      <4>2. input.evidence # NoEvidence => << input.evidence, "evidence_set" >> \in DOMAIN upstream
        BY <1>0, <2>0 DEF TypeOK, UpstreamFiles
      <4>3. QED
        BY <4>1, <4>2 DEF UpstreamWritten
    <3>4. QED
      BY <1>2, <2>3, <3>1, <3>2, <3>3, PlansKept DEF IInv, WriteEvidenceSet, local
  <2>4. QED
    BY <2>2, <2>3
<1>3. CASE WriteClaimSet
  <2>0. input \in Inputs /\ (input.claims # NoClaims => input.evidence \in EvidenceIds)
    BY <1>0, InputsWellFormed DEF TypeOK
  <2>1. TypeOK'
    <3>1. DOMAIN upstream' = UpstreamFiles
      BY <1>0, <1>3 DEF TypeOK, WriteClaimSet
    <3>2. QED
      BY <1>0, <1>3, <3>1 DEF TypeOK, WriteClaimSet, faults
  <2>2. PlanSound(summary)' /\ PlanSound(prior)'
    BY <1>3 DEF IInv, PlanSound, WriteClaimSet
  <2>3. Progress'
    <3>1. products = NoProducts /\ stage = "EF" /\ todo = {}
      BY <1>0, <1>3 DEF Progress, WriteClaimSet
    <3>2. CASE input.claims = NoClaims
      <4>1. ProductsOf(input) = NoProducts
        BY <3>2 DEF ProductsOf, NoProducts
      <4>2. QED
        BY <1>3, <3>1, <3>2, <4>1 DEF Progress, WriteClaimSet, Writers, Finishing, OnDisk, NoProducts
    <3>3. CASE input.claims # NoClaims
      BY <1>3, <3>1, <3>3, Families DEF Progress, WriteClaimSet, Writers, Finishing, OnDisk, Right
    <3>4. QED
      BY <3>2, <3>3
  <2>4. UpstreamWritten'
    <3>1. input.claims # NoClaims => << input.evidence, "claim_set" >> \in DOMAIN upstream
      BY <1>0, <2>0 DEF TypeOK, UpstreamFiles
    <3>2. QED
      BY <1>0, <1>3, <3>1 DEF UpstreamWritten, WriteClaimSet
  <2>5. QED
    BY <2>1, <2>2, <2>3, <2>4 DEF IInv
<1>4. QED
  BY <1>1, <1>2, <1>3

(* Resolving a family sets its products to those of the input, and for     *)
(* EconomicFacts finds out whether the kernel on disk is the current one.  *)
LEMMA ResolveIInv == ASSUME IInv, ResolveKernels PROVE IInv'
<1>0. /\ TypeOK /\ PlanSound(prior) /\ Progress /\ UpstreamWritten
      /\ pc = "resolve" /\ input.claims # NoClaims /\ Right(Before(stage)) /\ OnDisk(Before(stage))
      /\ input \in Inputs /\ stage \in Stages
  BY DEF IInv, Progress, ResolveKernels, TypeOK
<1>1. \A r \in Family(stage) : Resolved(stage)[r] = ProductsOf(input)[r]
  BY <1>0, ResolvedIsTruth
<1>2. ProductsOf(input) \in [Refs -> MaybeKernels]
  BY <1>0, ProductsTyped
<1>3. \A r \in Refs : products'[r] = IF r \in Family(stage) THEN ProductsOf(input)[r] ELSE products[r]
  BY <1>1 DEF ResolveKernels
<1>4. products' \in [Refs -> MaybeKernels]
  BY <1>0, <1>2, <1>3 DEF ResolveKernels, TypeOK
<1>5. invalid' \subseteq Refs
  BY <1>0, Families DEF ResolveKernels, InvalidOnResolve, PriorMismatches, PriorRefs, Refs
<1>6. TypeOK'
  BY <1>0, <1>4, <1>5 DEF ResolveKernels, TypeOK, store, faults
<1>7. Progress'
  <2>1. Right(Before(stage) \cup Family(stage))'
    BY <1>0, <1>3, Families DEF Right, ResolveKernels
  <2>2. OnDisk((Before(stage) \cup Family(stage)) \ todo)'
    BY <1>0, <1>3, Families DEF OnDisk, KernelFile, ResolveKernels, store
  <2>3. \A r \in todo' : products'[r] # Absent
    BY DEF ResolveKernels
  <2>4. ASSUME stage = "EF", invalid' = {}, NEW r \in todo', IsFile(KernelFile(r))
        PROVE  disk[KernelFile(r)] = products'[r]
    <3>0. r \in EFRefs /\ r \in Refs /\ Family(stage) = EFRefs /\ products'[r] = Resolved(stage)[r]
      BY <2>4, <1>0, <1>1, <1>3, Families DEF ResolveKernels, Refs
    <3>1. CASE CanUsePrior
      <4>1. PriorMismatches = {} /\ UsePrior
        BY <2>4, <3>1 DEF ResolveKernels, InvalidOnResolve, UsePrior
      <4>2. r \in PriorRefs(stage)
        BY <2>3, <2>4, <3>0, <4>1 DEF Resolved
      <4>3. QED
        BY <3>0, <4>1, <4>2 DEF Resolved
    <3>2. CASE ~CanUsePrior
      <4>1. Build("EF")[r] = products'[r]
        BY <2>4, <3>0, <3>2 DEF Resolved, UsePrior
      <4>2. ~Mismatch(r, Build("EF")[r])
        BY <2>3, <2>4, <3>0, <3>2, <4>1 DEF ResolveKernels, InvalidOnResolve
      <4>3. QED
        BY <2>4, <4>1, <4>2 DEF Mismatch
    <3>3. QED
      BY <3>1, <3>2
  <2>5. QED
    BY <1>0, <2>1, <2>2, <2>3, <2>4
    DEF Progress, ResolveKernels, store, Writers, Finishing, IsFile, KernelFile
<1>8. UpstreamWritten'
  BY <1>0 DEF UpstreamWritten, ResolveKernels, store
<1>9. QED
  BY <1>6, <1>7, <1>8, PlansKept DEF IInv, ResolveKernels, store

(* A kernel that is reused is the current one on disk. *)
LEMMA ReusedIsCurrent ==
  ASSUME IInv, NEW r \in Refs, ReuseKernel(r)
  PROVE  disk[KernelFile(r)] = products[r]
<1>0. /\ pc = "kernel" /\ r \in todo /\ IsFile(KernelFile(r)) /\ ~KernelInvalid(r)
      /\ PriorFingerprint(r) = products[r] /\ products[r] # Absent
  BY DEF IInv, Progress, Writers, ReuseKernel, KernelReusable
<1>1. CASE stage = "EF"
  BY <1>0, <1>1 DEF IInv, Progress, Writers, KernelInvalid
<1>2. CASE stage # "EF"
  <2>1. r \in PriorRefs(stage) /\ products[r] = prior.products[r]
    BY <1>0, <1>2 DEF PriorFingerprint
  <2>2. ~Mismatch(r, prior.products[r])
    BY <1>0, <1>2, <2>1 DEF KernelInvalid
  <2>3. QED
    BY <1>0, <2>1, <2>2 DEF Mismatch
<1>3. QED
  BY <1>1, <1>2

(* Deciding on a kernel, and writing it when it is rebuilt. *)
LEMMA KernelIInv ==
  ASSUME IInv, NEW r \in Refs, ReuseKernel(r) \/ RebuildKernel(r)
  PROVE  IInv'
<1>0. /\ TypeOK /\ Progress /\ UpstreamWritten /\ pc = "kernel" /\ r \in todo
      /\ products[r] \in Kernels /\ KernelFile(r) \in Files
  <2>1. products[r] # Absent /\ products[r] \in MaybeKernels
    BY DEF IInv, TypeOK, Progress, Writers, ReuseKernel, RebuildKernel
  <2>2. QED
    BY <2>1 DEF IInv, MaybeKernels, ReuseKernel, RebuildKernel, KernelFile, Files
<1>1. /\ disk' \in DiskType /\ disk'[KernelFile(r)] = products[r]
      /\ \A f \in Files : f # KernelFile(r) => disk'[f] = disk[f]
  <2>1. CASE ReuseKernel(r)
    BY <1>0, <2>1, ReusedIsCurrent DEF ReuseKernel, store, TypeOK, DiskType
  <2>2. CASE RebuildKernel(r)
    BY <1>0, <2>2 DEF RebuildKernel, TypeOK, DiskType
  <2>3. QED
    BY <2>1, <2>2
<1>2. TypeOK'
  BY <1>0, <1>1 DEF TypeOK, ReuseKernel, RebuildKernel, store, faults, DiskType
<1>3. Progress'
  <2>1. \A q \in Refs : q # r => disk'[KernelFile(q)] = disk[KernelFile(q)]
    BY <1>1 DEF KernelFile, Files
  <2>2. todo \subseteq Refs /\ Before(stage) \cup Family(stage) \subseteq Refs
    BY <1>0, Families DEF TypeOK
  <2>3. /\ products' = products /\ input' = input /\ stage' = stage /\ todo' = todo
        /\ invalid' = invalid /\ pc' = "detail" /\ cur' = r
    BY DEF ReuseKernel, RebuildKernel
  <2>4. OnDisk((Before(stage) \cup Family(stage)) \ todo)'
    BY <1>0, <2>1, <2>2, <2>3 DEF Progress, OnDisk, Writers, KernelFile
  <2>5. stage = "EF" /\ invalid = {} =>
          \A q \in todo : disk'[KernelFile(q)] # Missing => disk'[KernelFile(q)] = products[q]
    BY <1>0, <1>1, <2>1, <2>2 DEF Progress, Writers, IsFile
  <2>6. QED
    BY <1>0, <1>1, <2>3, <2>4, <2>5
    DEF Progress, Writers, Finishing, Right, IsFile, KernelFile
<1>4. UpstreamWritten'
  BY <1>0 DEF UpstreamWritten, ReuseKernel, RebuildKernel, store
<1>5. QED
  BY <1>2, <1>3, <1>4, PlansKept DEF IInv, ReuseKernel, RebuildKernel, store

(* The detail files of each family. *)
LEMMA DetailFilesOf ==
  /\ DetailFiles("EF") = << "facts", "annotations" >> /\ Len(DetailFiles("EF")) = 2
  /\ DetailFiles("RS") = << "snapshots" >> /\ Len(DetailFiles("RS")) = 1
  /\ DetailFiles("CP") = << "references" >> /\ Len(DetailFiles("CP")) = 1
<1>1. /\ DetailFiles("EF") = << "facts", "annotations" >>
      /\ DetailFiles("RS") = << "snapshots" >>
      /\ DetailFiles("CP") = << "references" >>
  BY DEF DetailFiles
<1>2. QED
  BY <1>1

(* Which detail file is written next. *)
LEMMA WritingBounds ==
  ASSUME IInv, RefreshDetail
  PROVE  /\ writing' \in {1, 2}
         /\ pc' = "refresh" => writing' = 1 \/ (stage' = "EF" /\ writing' = 2)
<1>1. stage \in Stages /\ (writing = 1 \/ (stage = "EF" /\ writing = 2))
  BY DEF IInv, TypeOK, Progress, RefreshDetail
<1>2. stage' = stage
  BY DEF RefreshDetail
<1>3. CASE writing = Len(DetailFiles(stage))
  <2>1. pc' = "kernel" /\ writing' = 1
    BY <1>3 DEF RefreshDetail
  <2>2. QED
    BY <2>1
<1>4. CASE writing # Len(DetailFiles(stage))
  <2>1. writing' = writing + 1
    BY <1>4 DEF RefreshDetail
  <2>2. writing = 1 /\ stage = "EF"
    BY <1>1, <1>4, DetailFilesOf DEF Stages
  <2>3. QED
    BY <1>2, <2>1, <2>2
<1>5. QED
  BY <1>3, <1>4

(* What a run projects from its products is what the input should give.   *)
LEMMA ProjectIsTruth ==
  ASSUME IInv, pc \in Writers, NEW r \in Family(stage), NEW k
  PROVE  Project(products, input, r, k) = TruthRows(r, k)
<1>0. stage \in Stages /\ Right(Before(stage) \cup Family(stage))
  BY DEF IInv, TypeOK, Progress
<1>1. products[r] = ProductsOf(input)[r]
  BY <1>0 DEF Right
<1>2. CASE stage = "EF"
  BY <1>1, <1>2, Families DEF Project, TruthRows
<1>3. CASE stage = "RS"
  BY <1>1, <1>3, Families, FamiliesDisjoint DEF Project, TruthRows
<1>4. CASE stage = "CP"
  <2>1. [q \in RSRefs |-> products[q]] = [q \in RSRefs |-> ProductsOf(input)[q]]
    BY <1>0, <1>4, Families DEF Right
  <2>2. r \notin EFRefs /\ r \notin RSRefs
    BY <1>4, Families, FamiliesDisjoint
  <2>3. QED
    BY <1>1, <2>1, <2>2 DEF Project, TruthRows
<1>5. QED
  BY <1>0, <1>2, <1>3, <1>4 DEF Stages

(* The projection of a current product is a detail content. *)
LEMMA ProjectTyped ==
  ASSUME IInv, pc = "refresh"
  PROVE  /\ DetailFiles(stage)[writing] \in DetailKinds
         /\ Project(products, input, cur, DetailFiles(stage)[writing]) \in DetailRows
<1>0. /\ input \in Inputs /\ stage \in Stages /\ cur \in todo /\ todo \subseteq Family(stage)
      /\ input.claims # NoClaims /\ products[cur] # Absent
      /\ Right(Before(stage) \cup Family(stage))
      /\ writing = 1 \/ (stage = "EF" /\ writing = 2)
  BY DEF IInv, TypeOK, Progress, Writers
<1> DEFINE k == DetailFiles(stage)[writing]
<1>1. k \in KindsOf(stage) /\ k \in DetailKinds
  <2>1. /\ 1 \in DOMAIN << "facts", "annotations" >> /\ 2 \in DOMAIN << "facts", "annotations" >>
        /\ 1 \in DOMAIN << "snapshots" >> /\ 1 \in DOMAIN << "references" >>
    OBVIOUS
  <2>2. CASE stage = "EF"
    BY <1>0, <2>1, <2>2, DetailFilesOf DEF KindsOf, DetailKinds
  <2>3. CASE stage = "RS"
    BY <1>0, <2>1, <2>3, DetailFilesOf DEF KindsOf, DetailKinds
  <2>4. CASE stage = "CP"
    BY <1>0, <2>1, <2>4, DetailFilesOf DEF KindsOf, DetailKinds
  <2>5. QED
    BY <1>0, <2>2, <2>3, <2>4 DEF Stages
<1>2. ProductsOf(input)[cur] # Absent
  BY <1>0 DEF Right
<1>3. Project(ProductsOf(input), input, cur, k) \in DetailRows
  BY <1>0, <1>1, <1>2, BuildersTyped
<1>4. Project(products, input, cur, k) = Project(ProductsOf(input), input, cur, k)
  BY <1>0, ProjectIsTruth DEF TruthRows, Writers
<1>5. QED
  BY <1>1, <1>3, <1>4

(* Reading, or rewriting, the detail files of a product. *)
LEMMA DetailIInv ==
  ASSUME IInv, ReuseDetail \/ DecideRefresh \/ RefreshDetail
  PROVE  IInv'
<1>0. /\ TypeOK /\ Progress /\ UpstreamWritten /\ pc \in {"detail", "refresh"}
      /\ cur \in todo /\ disk[KernelFile(cur)] = products[cur] /\ cur \in Refs
      /\ stage \in Stages /\ todo \subseteq Family(stage)
  BY Families DEF IInv, Progress, TypeOK, ReuseDetail, DecideRefresh, RefreshDetail
<1>1. /\ disk' \in DiskType
      /\ \A q \in Refs : disk'[KernelFile(q)] = disk[KernelFile(q)]
      /\ RefreshDetail => rows' \in [Files -> Kernels \cup DetailRows \cup {Absent, Partial}]
  <2>1. CASE ReuseDetail \/ DecideRefresh
    BY <1>0, <2>1 DEF ReuseDetail, DecideRefresh, RefreshDetail, store, TypeOK, DiskType
  <2>2. CASE RefreshDetail
    <3>1. /\ Project(products, input, cur, DetailFiles(stage)[writing]) \in DetailRows
          /\ DetailFiles(stage)[writing] \in DetailKinds
      BY <2>2, ProjectTyped DEF RefreshDetail
    <3>2. Refreshing \in Files /\ \A q \in Refs : KernelFile(q) # Refreshing /\ KernelFile(q) \in Files
      BY <1>0, <3>1 DEF Refreshing, Files, KernelFile, DetailKinds
    <3>3. disk' = [disk EXCEPT ![Refreshing] =
                     Project(products, input, cur, DetailFiles(stage)[writing])]
      BY <2>2 DEF RefreshDetail
    <3>4. rows' = [rows EXCEPT ![Refreshing] =
                     Project(products, input, cur, DetailFiles(stage)[writing])]
      BY <2>2 DEF RefreshDetail
    <3>5. disk \in DiskType /\ rows \in [Files -> Kernels \cup DetailRows \cup {Absent, Partial}]
      BY <1>0 DEF TypeOK, DiskType
    <3>6. disk' \in DiskType
      BY <3>1, <3>3, <3>5 DEF DiskType
    <3>7. \A q \in Refs : disk'[KernelFile(q)] = disk[KernelFile(q)]
      BY <3>2, <3>3, <3>5 DEF DiskType
    <3>8. rows' \in [Files -> Kernels \cup DetailRows \cup {Absent, Partial}]
      BY <3>1, <3>4, <3>5
    <3>9. QED
      BY <3>6, <3>7, <3>8
  <2>3. QED
    BY <2>1, <2>2
<1>2. /\ products' = products /\ input' = input /\ stage' = stage /\ invalid' = invalid
      /\ cur' = cur /\ summary' = summary /\ prior' = prior /\ upstream' = upstream
  BY DEF ReuseDetail, DecideRefresh, RefreshDetail, store
<1>3. \/ pc' \in {"detail", "refresh"} /\ todo' = todo
      \/ pc' = "kernel" /\ todo' = todo \ {cur}
  BY <1>0 DEF ReuseDetail, DecideRefresh, RefreshDetail
<1>4. TypeOK'
  <2>1. CASE ReuseDetail
    <3>1. \A f \in Files : f[1] = cur /\ f[2] \in KindsOf(stage) =>
            disk[f] \in Kernels \cup DetailRows \cup {Partial}
      <4>1. SUFFICES ASSUME NEW f \in Files, f[1] = cur, f[2] \in KindsOf(stage)
                     PROVE  disk[f] \in Kernels \cup DetailRows \cup {Partial}
        OBVIOUS
      <4>2. f = << cur, f[2] >>
        BY <4>1 DEF Files
      <4>3. disk[f] \notin {Missing, Unreadable}
        BY <2>1, <4>1, <4>2 DEF ReuseDetail, DetailReusable
      <4>4. QED
        BY <1>0, <4>3 DEF TypeOK
    <3>2. rows' \in [Files -> Kernels \cup DetailRows \cup {Absent, Partial}]
      BY <1>0, <2>1, <3>1 DEF ReuseDetail, TypeOK
    <3>3. QED
      BY <1>0, <2>1, <3>2 DEF ReuseDetail, TypeOK, store, faults
  <2>2. CASE DecideRefresh
    BY <1>0, <2>2 DEF DecideRefresh, TypeOK, store, faults
  <2>3. CASE RefreshDetail
    <3>1. writing' \in {1, 2}
      BY <2>3, WritingBounds
    <3>2. QED
      BY <1>0, <1>1, <2>3, <3>1 DEF RefreshDetail, TypeOK, faults, DiskType
  <2>4. QED
    BY <2>1, <2>2, <2>3
<1>5. Progress'
  <2>0. todo \subseteq Refs /\ Before(stage) \cup Family(stage) \subseteq Refs
    BY <1>0, Families
  <2>1. pc' = "refresh" => writing' = 1 \/ (stage' = "EF" /\ writing' = 2)
    <3>1. CASE RefreshDetail
      BY <3>1, WritingBounds
    <3>2. CASE ReuseDetail \/ DecideRefresh
      BY <3>2 DEF ReuseDetail, DecideRefresh
    <3>3. QED
      BY <3>1, <3>2
  <2>2. OnDisk((Before(stage) \cup Family(stage)) \ todo)'
    BY <1>0, <1>1, <1>2, <1>3, <2>0 DEF Progress, Writers, OnDisk, KernelFile
  <2>3. stage = "EF" /\ invalid = {} =>
          \A q \in todo' : disk'[KernelFile(q)] # Missing => disk'[KernelFile(q)] = products[q]
    BY <1>0, <1>1, <1>3, <2>0 DEF Progress, Writers, IsFile
  <2>4. QED
    BY <1>0, <1>1, <1>2, <1>3, <2>1, <2>2, <2>3
    DEF Progress, Writers, Finishing, Right, IsFile, KernelFile
<1>6. UpstreamWritten'
  BY <1>0, <1>2, <1>3 DEF UpstreamWritten
<1>7. QED
  BY <1>2, <1>4, <1>5, <1>6, PlansKept DEF IInv

(* Moving to the next family. *)
LEMMA FinishStageIInv == ASSUME IInv, FinishStage PROVE IInv'
<1>0. /\ TypeOK /\ Progress /\ UpstreamWritten /\ pc = "kernel" /\ todo = {} /\ stage \in Stages
      /\ Right(Before(stage) \cup Family(stage)) /\ OnDisk(Before(stage) \cup Family(stage))
      /\ input.claims # NoClaims /\ input \in Inputs
  BY DEF IInv, Progress, Writers, FinishStage, TypeOK
<1>1. /\ products' = products /\ input' = input /\ disk' = disk /\ todo' = {}
      /\ summary' = summary /\ prior' = prior /\ upstream' = upstream
  BY <1>0 DEF FinishStage, store
<1>2. CASE stage = "CP"
  <2>1. pc' = "prune" /\ stage' = "CP"
    BY <1>2 DEF FinishStage
  <2>2. Before(stage) \cup Family(stage) = Refs
    BY <1>2, Families DEF Refs
  <2>3. products = ProductsOf(input)
    BY <1>0, <2>2, ProductsTyped DEF Right, TypeOK
  <2>4. Progress'
    BY <1>0, <1>1, <2>1, <2>2, <2>3 DEF Progress, Writers, Finishing, OnDisk, KernelFile
  <2>5. TypeOK'
    BY <1>0, <1>1, <2>1 DEF TypeOK, FinishStage, store, faults, Stages
  <2>6. UpstreamWritten'
    BY <1>0, <1>1, <2>1 DEF UpstreamWritten
  <2>7. QED
    BY <1>1, <2>4, <2>5, <2>6, PlansKept DEF IInv
<1>3. CASE stage # "CP"
  <2>1. /\ pc' = "resolve" /\ stage' \in Stages
        /\ Before(stage') = Before(stage) \cup Family(stage)
    BY <1>0, <1>3, Families DEF FinishStage, Stages
  <2>2. Progress'
    BY <1>0, <1>1, <2>1 DEF Progress, Writers, Finishing, OnDisk, Right, KernelFile
  <2>3. TypeOK'
    BY <1>0, <1>1, <2>1 DEF TypeOK, FinishStage, store, faults
  <2>4. UpstreamWritten'
    BY <1>0, <1>1, <2>1 DEF UpstreamWritten
  <2>5. QED
    BY <1>1, <2>2, <2>3, <2>4, PlansKept DEF IInv
<1>4. QED
  BY <1>2, <1>3

(* Pruning leaves the current products alone; then mirrors and summary.    *)
LEMMA FinishingIInv ==
  ASSUME IInv, Prune \/ WriteMirrors \/ WriteSummary
  PROVE  IInv'
<1>0. /\ TypeOK /\ Progress /\ UpstreamWritten /\ pc \in Finishing /\ pc # "published"
      /\ products = ProductsOf(input) /\ OnDisk(Refs) /\ input \in Inputs
  BY DEF IInv, Progress, Finishing, Prune, WriteMirrors, WriteSummary, TypeOK
<1>1. /\ products' = products /\ input' = input /\ prior' = prior /\ upstream' = upstream
      /\ pc' \in {"mirrors", "summary", "published"}
  BY DEF Prune, WriteMirrors, WriteSummary, local
<1>2. /\ disk' \in DiskType
      /\ \A r \in Refs : products[r] # Absent => disk'[KernelFile(r)] = disk[KernelFile(r)]
  <2>1. CASE Prune
    <3>1. \A r \in Refs : products[r] # Absent => r \notin Pruned
      BY DEF Pruned
    <3>2. \A r \in Refs : KernelFile(r) \in Files /\ KernelFile(r)[1] = r
      BY DEF KernelFile, Files
    <3>3. QED
      BY <1>0, <2>1, <3>1, <3>2 DEF Prune, TypeOK, DiskType
  <2>2. CASE WriteMirrors \/ WriteSummary
    BY <1>0, <2>2 DEF WriteMirrors, WriteSummary, TypeOK, DiskType
  <2>3. QED
    BY <2>1, <2>2
<1>3. PlanSound(summary)' /\ PlanSound(prior)' /\ (pc' = "published" => summary'.products = products)
  <2>1. CASE Prune \/ WriteMirrors
    BY <2>1, PlansKept DEF Prune, WriteMirrors, local
  <2>2. CASE WriteSummary
    <3>1. /\ summary' = Plan /\ Plan.products = products /\ Plan.claims = input.claims
      BY <2>2 DEF WriteSummary, Plan, PlanWith
    <3>2. PlanSound(Plan)
      BY <1>0, <3>1, ProductsTyped DEF PlanSound
    <3>3. QED
      BY <1>1, <3>1, <3>2 DEF PlanSound, IInv
  <2>3. QED
    BY <2>1, <2>2
<1>4. TypeOK'
  <2>1. DOMAIN mirror' = MirrorKinds
    BY <1>0 DEF TypeOK, Prune, WriteMirrors, WriteSummary
  <2>2. exposed' \in BOOLEAN
    BY <1>0 DEF TypeOK, Prune, WriteMirrors, WriteSummary, faults
  <2>3. \A q \in {summary', prior'} : q # NoPlan => q.products \in [Refs -> MaybeKernels]
    BY <1>3 DEF PlanSound
  <2>4. QED
    BY <1>0, <1>2, <2>1, <2>2, <2>3
    DEF TypeOK, Prune, WriteMirrors, WriteSummary, local, faults, DiskType
<1>5. Progress'
  BY <1>0, <1>1, <1>2, <1>3 DEF Progress, Writers, Finishing, OnDisk, KernelFile
<1>6. UpstreamWritten'
  BY <1>0, <1>1 DEF UpstreamWritten, Finishing
<1>7. QED
  BY <1>3, <1>4, <1>5, <1>6 DEF IInv

(* A run that has published returns. *)
LEMMA EndRunIInv == ASSUME IInv, EndRun PROVE IInv'
  BY RunOver DEF IInv, TypeOK, EndRun, store, faults, DiskType

(* Every step of the program, its operator and its machine keeps IInv. *)
LEMMA NextIInv == IInv /\ [Next]_vars => IInv'
<1> SUFFICES ASSUME IInv, [Next]_vars PROVE IInv'
  OBVIOUS
<1>1. CASE (\E i \in Inputs : EditRaw(i)) \/ (\E f \in Files : \E c \in Damage(f) : Disturb(f, c))
  BY <1>1, EnvironmentIInv
<1>2. CASE (\E m \in Modes : StartNormalize(m)) \/ WriteEvidenceSet \/ WriteClaimSet
  BY <1>2, TranslateIInv
<1>3. CASE ResolveKernels
  BY <1>3, ResolveIInv
<1>4. CASE \E r \in Refs : ReuseKernel(r) \/ RebuildKernel(r)
  BY <1>4, KernelIInv
<1>5. CASE ReuseDetail \/ DecideRefresh \/ RefreshDetail
  BY <1>5, DetailIInv
<1>6. CASE FinishStage
  BY <1>6, FinishStageIInv
<1>7. CASE Prune \/ WriteMirrors \/ WriteSummary
  BY <1>7, FinishingIInv
<1>8. CASE EndRun
  BY <1>8, EndRunIInv
<1>9. CASE Crash
  BY <1>9, CrashIInv
<1>10. CASE UNCHANGED vars
  <2>1. /\ UNCHANGED << raw, upstream, disk, mirror, summary, pc, crashes, disturbances, exposed >>
        /\ UNCHANGED << mode, input, prior, stage, todo, cur, products, built, invalid >>
        /\ UNCHANGED << kernelAction, detailAction, rows, writing >>
    BY <1>10 DEF vars, store, local, faults
  <2>2. TypeOK'
    BY <2>1 DEF IInv, TypeOK
  <2>3. Progress' /\ UpstreamWritten'
    BY <2>1 DEF IInv, Progress, UpstreamWritten, Right, OnDisk, IsFile, KernelFile
  <2>4. QED
    BY <2>1, <2>2, <2>3, PlansKept DEF IInv
<1>11. QED
  BY <1>1, <1>2, <1>3, <1>4, <1>5, <1>6, <1>7, <1>8, <1>9, <1>10 DEF Next, RunStep

(* The variables of the rerun engine keep their types through runs,        *)
(* crashes and damage.                                                     *)
THEOREM TypeCorrect == Spec => []TypeOK
<1>1. IInv => TypeOK
  BY DEF IInv
<1>2. QED
  BY <1>1, InitIInv, NextIInv, PTL DEF Spec

(* Whatever was reused, crashed or damaged before, a run that writes its   *)
(* summary leaves the kernels, claim set and evidence set that building    *)
(* from the raw capture gives.                                             *)
THEOREM PublishedKernelsAuthoritative == Spec => []KernelsAuthoritative
<1>1. IInv => KernelsAuthoritative
  <2> SUFFICES ASSUME IInv, pc = "published" PROVE KernelsAuthoritative
    BY DEF KernelsAuthoritative
  <2>1. /\ products = ProductsOf(input) /\ OnDisk(Refs) /\ summary.products = products
        /\ UpstreamWritten
    BY DEF IInv, Progress, Finishing
  <2>2. QED
    BY <2>1 DEF KernelsAuthoritative, OnDisk, UpstreamWritten
<1>2. QED
  BY <1>1, InitIInv, NextIInv, PTL DEF Spec

-----------------------------------------------------------------------------
(* The rerun engine implements NormalizeContract: each step of a run, of    *)
(* the operator or of a crash is a step of the contract, or leaves what it  *)
(* speaks of alone.                                                         *)
KernelContents == [r \in Refs |-> disk[KernelFile(r)]]
FileValues == Kernels \cup DetailRows \cup {Missing, Unreadable, Partial}

(* A run works on the capture as it is: edits wait for its end.             *)
InputIsRaw == pc # "idle" => input = raw

(* No step of a run changes the input or the capture it was read from.      *)
LEMMA InputIsRawKept == InputIsRaw /\ [Next]_vars => InputIsRaw'
<1> SUFFICES ASSUME InputIsRaw, [Next]_vars PROVE InputIsRaw'
  OBVIOUS
<1>1. CASE UNCHANGED vars
  BY <1>1 DEF vars, store, local, InputIsRaw
<1>2. ASSUME NEW i \in Inputs, EditRaw(i) PROVE InputIsRaw'
  BY <1>2 DEF EditRaw, InputIsRaw
<1>3. ASSUME NEW f \in Files, NEW c \in Damage(f), Disturb(f, c) PROVE InputIsRaw'
  BY <1>3 DEF Disturb, InputIsRaw
<1>4. ASSUME NEW m \in Modes, StartNormalize(m) PROVE InputIsRaw'
  BY <1>4 DEF StartNormalize, store, InputIsRaw
<1>5. CASE WriteEvidenceSet
  BY <1>5 DEF WriteEvidenceSet, local, InputIsRaw
<1>6. CASE WriteClaimSet \/ ResolveKernels
  BY <1>6 DEF WriteClaimSet, ResolveKernels, store, InputIsRaw
<1>7. ASSUME NEW r \in Refs, ReuseKernel(r) \/ RebuildKernel(r) PROVE InputIsRaw'
  BY <1>7 DEF ReuseKernel, RebuildKernel, store, InputIsRaw
<1>8. CASE ReuseDetail \/ DecideRefresh \/ RefreshDetail \/ FinishStage
  BY <1>8 DEF ReuseDetail, DecideRefresh, RefreshDetail, FinishStage, store, InputIsRaw
<1>9. CASE Prune \/ WriteMirrors \/ WriteSummary \/ EndRun
  BY <1>9 DEF Prune, WriteMirrors, WriteSummary, EndRun, local, InputIsRaw
<1>10. CASE Crash
  BY <1>10 DEF Crash, Abort, CrashBetweenSteps, CrashWritingUpstream, CrashWritingKernel,
     CrashWritingDetail, CrashPruning, CrashWritingMirrors, CrashWritingSummary, InputIsRaw
<1>11. QED
  BY <1>1, <1>2, <1>3, <1>4, <1>5, <1>6, <1>7, <1>8, <1>9, <1>10 DEF Next, RunStep

-----------------------------------------------------------------------------
(* The kernel files always hold something a kernel file may hold.           *)
LEMMA KernelContentsTyped == ASSUME TypeOK PROVE KernelContents \in [Refs -> FileValues]
<1>1. \A r \in Refs : KernelFile(r) \in Files
  BY DEF KernelFile, Files
<1>2. QED
  BY <1>1 DEF TypeOK, KernelContents, FileValues

(* When nothing was written, the kernel files are as they were.             *)
LEMMA SameKernels == ASSUME disk' = disk PROVE KernelContents' = KernelContents
  BY DEF KernelContents, KernelFile

(* The start of the program is a start of the contract.                     *)
LEMMA InitRefines == Init => Contract!Init
<1> SUFFICES ASSUME Init PROVE Contract!Init
  OBVIOUS
<1>1. KernelContents \in [Refs -> FileValues]
  BY InitIInv, KernelContentsTyped DEF IInv
<1>2. QED
  BY <1>1 DEF Init, Contract!Init, Phase, KernelContents, FileValues

(* A crash abandons the run, or finishes it when the plan was on record.    *)
LEMMA CrashRefines ==
  ASSUME IInv, IInv', Crash
  PROVE  Contract!Abandon \/ Contract!Finish
<1>1. pc # "idle" /\ pc' = "idle" /\ raw' = raw
  BY DEF Crash, Abort, CrashBetweenSteps, CrashWritingUpstream, CrashWritingKernel,
     CrashWritingDetail, CrashPruning, CrashWritingMirrors, CrashWritingSummary
<1>2. summary' \in {summary, NoPlan}
  BY DEF Crash, CrashBetweenSteps, CrashWritingUpstream, CrashWritingKernel,
     CrashWritingDetail, CrashPruning, CrashWritingMirrors, CrashWritingSummary
<1>3. KernelContents' \in [Refs -> FileValues]
  BY KernelContentsTyped DEF IInv, KernelContents, FileValues, TypeOK, KernelFile, Files
<1>4. CASE pc = "published"
  <2>1. disk' = disk /\ summary' = summary
    BY <1>4 DEF Crash, CrashBetweenSteps, CrashWritingUpstream, CrashWritingKernel,
       CrashWritingDetail, CrashPruning, CrashWritingMirrors, CrashWritingSummary
  <2>2. QED
    BY <1>1, <1>4, <2>1, SameKernels DEF Contract!Finish, Phase, KernelContents
<1>5. CASE pc # "published"
  BY <1>1, <1>2, <1>3, <1>5 DEF Contract!Abandon, Phase, KernelContents, FileValues
<1>6. QED
  BY <1>4, <1>5

(* Between runs the capture is edited or a file is damaged; a run starts.   *)
LEMMA IdleRefines ==
  ASSUME IInv, IInv',
         \/ \E i \in Inputs : EditRaw(i)
         \/ \E f \in Files : \E c \in Damage(f) : Disturb(f, c)
         \/ \E m \in Modes : StartNormalize(m)
  PROVE  Contract!Next
<1>1. ASSUME NEW i \in Inputs, EditRaw(i) PROVE Contract!Edit
  BY <1>1, SameKernels DEF EditRaw, Contract!Edit, Phase, KernelContents
<1>2. ASSUME NEW f \in Files, NEW c \in Damage(f), Disturb(f, c) PROVE Contract!Damage
  <2>1. KernelContents' \in [Refs -> FileValues]
    BY KernelContentsTyped DEF IInv, KernelContents, FileValues, TypeOK, KernelFile, Files
  <2>2. QED
    BY <1>2, <2>1 DEF Disturb, Contract!Damage, Phase, KernelContents, FileValues
<1>3. ASSUME NEW m \in Modes, StartNormalize(m) PROVE Contract!Start
  BY <1>3, SameKernels DEF StartNormalize, store, Contract!Start, Phase, KernelContents
<1>4. QED
  BY <1>1, <1>2, <1>3 DEF Contract!Next

(* Until it publishes, a run may write kernels and keeps the plan.          *)
LEMMA WorkRefines ==
  ASSUME IInv, IInv', pc \notin {"idle", "published"}, pc' \notin {"idle", "published"},
         raw' = raw, summary' = summary
  PROVE  Contract!Work
<1>1. KernelContents' \in [Refs -> FileValues]
  BY KernelContentsTyped DEF IInv, KernelContents, FileValues, TypeOK, KernelFile, Files
<1>2. QED
  BY <1>1 DEF Contract!Work, Phase, KernelContents, FileValues

(* Writing the summary publishes the plan of the capture, held on disk.     *)
LEMMA SummaryRefines ==
  ASSUME IInv, InputIsRaw, WriteSummary
  PROVE  Contract!Publish
<1>1. /\ products = ProductsOf(raw) /\ OnDisk(Refs) /\ input = raw
      /\ pc = "summary" /\ pc' = "published" /\ disk' = disk /\ raw' = raw /\ summary' = Plan
  BY DEF IInv, Progress, Finishing, InputIsRaw, WriteSummary
<1>2. summary' = PlanFor(raw)
  BY <1>1 DEF Plan, PlanFor
<1>3. Contract!Holds(PlanFor(raw))
  <2>1. PlanFor(raw).products = products
    BY <1>1 DEF PlanFor, PlanWith
  <2>2. QED
    BY <1>1, <2>1 DEF Contract!Holds, Contract!Named, OnDisk
<1>4. QED
  BY <1>1, <1>2, <1>3, SameKernels DEF Contract!Publish, Phase, KernelContents

(* Every step is a step of the contract or leaves its variables alone.      *)
LEMMA NextRefines ==
  ASSUME IInv, IInv', InputIsRaw, [Next]_vars
  PROVE  [Contract!Next]_Contract!vars
<1>1. CASE UNCHANGED vars
  BY <1>1, SameKernels DEF vars, store, Contract!vars, Phase, KernelContents
<1>2. CASE \/ \E i \in Inputs : EditRaw(i)
           \/ \E f \in Files : \E c \in Damage(f) : Disturb(f, c)
           \/ \E m \in Modes : StartNormalize(m)
  BY <1>2, IdleRefines
<1>3. CASE WriteEvidenceSet
  <2>1. CASE input.outcome = "blocked"
    <3>1. /\ pc = "evidence" /\ pc' = "idle" /\ raw' = raw /\ summary' = summary
          /\ KernelContents' \in [Refs -> FileValues]
      BY <1>3, <2>1, KernelContentsTyped
      DEF WriteEvidenceSet, IInv, KernelContents, FileValues, TypeOK, KernelFile, Files
    <3>2. QED
      BY <3>1 DEF Contract!Next, Contract!Abandon, Phase, KernelContents, FileValues
  <2>2. CASE input.outcome # "blocked"
    BY <1>3, <2>2, WorkRefines DEF WriteEvidenceSet, Contract!Next
  <2>3. QED
    BY <2>1, <2>2
<1>4. CASE WriteClaimSet \/ ResolveKernels
  BY <1>4, WorkRefines DEF WriteClaimSet, ResolveKernels, store, Contract!Next
<1>5. ASSUME NEW r \in Refs, ReuseKernel(r) \/ RebuildKernel(r) PROVE Contract!Next
  BY <1>5, WorkRefines DEF ReuseKernel, RebuildKernel, store, Contract!Next
<1>6. CASE ReuseDetail \/ DecideRefresh \/ RefreshDetail \/ FinishStage
  BY <1>6, WorkRefines
  DEF ReuseDetail, DecideRefresh, RefreshDetail, FinishStage, store, Contract!Next
<1>7. CASE Prune \/ WriteMirrors
  BY <1>7, WorkRefines DEF Prune, WriteMirrors, Contract!Next
<1>8. CASE WriteSummary
  BY <1>8, SummaryRefines DEF Contract!Next
<1>9. CASE EndRun
  BY <1>9, SameKernels DEF EndRun, store, Contract!Next, Contract!Finish, Phase, KernelContents
<1>10. CASE Crash
  BY <1>10, CrashRefines DEF Contract!Next
<1>11. QED
  BY <1>1, <1>2, <1>3, <1>4, <1>5, <1>6, <1>7, <1>8, <1>9, <1>10 DEF Next, RunStep

(* For any inputs, builders, crashes and damaged files, a reader of the     *)
(* plan and the kernels sees only what NormalizeContract allows.            *)
THEOREM EngineImplementsContract == Spec => ImplementsContract
<1>1. Init => IInv /\ InputIsRaw /\ Contract!Init
  BY InitIInv, InitRefines DEF Init, InputIsRaw
<1>2. IInv /\ InputIsRaw /\ [Next]_vars => IInv' /\ InputIsRaw'
  BY NextIInv, InputIsRawKept
<1>3. IInv /\ InputIsRaw /\ IInv' /\ [Next]_vars => [Contract!Next]_Contract!vars
  BY NextRefines
<1>4. QED
  BY <1>1, <1>2, <1>3, PTL DEF Spec, ImplementsContract, Contract!Spec
=============================================================================
