----------------------- MODULE TargetProductsHistory -----------------------
(***************************************************************************)
(* What one run leaves for the next: proofs about sequences of runs of     *)
(* TargetProducts.  A finished run leaves no stale product, rewrites       *)
(* nothing that is intact, writes only kernels it built, and after a run   *)
(* that refreshes everything details and mirrors are right until the next  *)
(* crash or damage.                                                        *)
(***************************************************************************)
EXTENDS TargetProductsProofs

(* A recorded plan is the one a build from some input would record.        *)
PlanRecorded(p) == p # NoPlan => \E i \in Inputs : p = PlanFor(i)

Loaded == {"resolve", "prune", "mirrors", "summary"} \cup Writers

PlansRecorded ==
  /\ PlanRecorded(summary)
  /\ pc \in Loaded => prior = summary
  /\ pc = "published" => summary = PlanFor(input)

(* The products that are those of the input already, and among them the    *)
(* ones whose details are decided and written.                             *)
Made == IF pc = "resolve" THEN Before(stage)
        ELSE IF pc \in Writers THEN Before(stage) \cup Family(stage)
        ELSE IF pc \in Finishing THEN Refs ELSE {}
Done == IF pc \in Writers THEN Made \ todo ELSE Made

CurrentProduct(r) == ProductsOf(input)[r] # Absent
Named(r) == summary # NoPlan /\ summary.products[r] # Absent

(* Without faults, a product file belongs to a product that the recorded   *)
(* plan names or that this run has made; after pruning, to the latter.     *)
FilesNamed ==
  crashes = 0 /\ disturbances = 0 =>
    \A r \in Refs : \A k \in {"kernel"} \cup DetailKinds :
      IsFile(<< r, k >>) =>
        \/ pc \notin {"mirrors", "summary", "published"} /\ Named(r)
        \/ r \in Made /\ CurrentProduct(r)

(* Why kernels read back need no writing, and what was found invalid.      *)
ReuseGrounds ==
  /\ pc \in Writers /\ stage = "EF" /\ ~built =>
       /\ mode # "rebuild" /\ prior # NoPlan /\ invalid = {}
       /\ prior.products = ProductsOf(input)
       /\ \A r \in todo : IsFile(KernelFile(r))
  /\ pc \in Writers =>
       /\ invalid \subseteq Family(stage)
       /\ \A r \in invalid : /\ CurrentProduct(r)
                             /\ r \in todo /\ (pc = "kernel" \/ r # cur) =>
                                  disk[KernelFile(r)] # products[r]
  /\ pc \in {"detail", "refresh"} => kernelAction[cur] \in {"reused", "rebuilt"}
  /\ pc = "detail" /\ stage = "EF" /\ kernelAction[cur] = "rebuilt" => built

(* A run that refreshes every detail, or one before which nothing went     *)
(* wrong, makes the details of its products right one after the other.     *)
Healing == mode # "auto" \/ ~exposed

DetailRight(r, k) == disk[<< r, k >>] = TruthRows(r, k) /\ rows[<< r, k >>] = TruthRows(r, k)

DetailsDone ==
  /\ Healing => \A r \in Done : CurrentProduct(r) =>
                  \A k \in KindsOf(FamilyOf(r)) : DetailRight(r, k)
  /\ pc = "refresh" /\ writing = 2 => DetailRight(cur, "facts")

(* The others still are as the recorded plan says.                         *)
DetailsRecorded ==
  ~exposed /\ pc \notin Finishing =>
    \A r \in Refs \ Done : Named(r) /\ ~(pc = "refresh" /\ r = cur) =>
      \A k \in KindsOf(FamilyOf(r)) : disk[<< r, k >>] = summary.signatures[r][k]

MirrorsWritten == pc \in {"summary", "published"} /\ Healing => MirrorsTrue

-----------------------------------------------------------------------------
(* The kinds of detail file of each family. *)
LEMMA KindsOfFamilies ==
  /\ KindsOf("EF") = {"facts", "annotations"} /\ KindsOf("RS") = {"snapshots"}
  /\ KindsOf("CP") = {"references"}
  /\ \A s \in Stages : \A r \in Family(s) : FamilyOf(r) = s
  /\ \A r \in Refs : FamilyOf(r) \in Stages /\ r \in Family(FamilyOf(r))
  /\ \A s \in Stages : KindsOf(s) \subseteq DetailKinds
<1>1. /\ KindsOf("EF") = {"facts", "annotations"} /\ KindsOf("RS") = {"snapshots"}
      /\ KindsOf("CP") = {"references"}
  <2>1. /\ DOMAIN << "facts", "annotations" >> = {1, 2}
        /\ DOMAIN << "snapshots" >> = {1} /\ DOMAIN << "references" >> = {1}
    OBVIOUS
  <2>2. QED
    BY <2>1, DetailFilesOf DEF KindsOf
<1>2. \A s \in Stages : \A r \in Family(s) : FamilyOf(r) = s
  BY Families, FamiliesDisjoint DEF FamilyOf, Stages
<1>3. \A r \in Refs : FamilyOf(r) \in Stages /\ r \in Family(FamilyOf(r))
  BY Families, FamiliesDisjoint DEF FamilyOf, Stages, Refs
<1>4. \A s \in Stages : KindsOf(s) \subseteq DetailKinds
  BY <1>1 DEF Stages, DetailKinds
<1>5. QED
  BY <1>1, <1>2, <1>3, <1>4

(* What is known while a family is written. *)
LEMMA WhileWriting ==
  ASSUME IInv, pc \in Writers
  PROVE  /\ stage \in Stages /\ todo \subseteq Family(stage) /\ Family(stage) \subseteq Refs
         /\ Before(stage) \subseteq Refs /\ input \in Inputs
         /\ \A r \in Before(stage) \cup Family(stage) : products[r] = ProductsOf(input)[r]
         /\ \A r \in todo : CurrentProduct(r) /\ products[r] # Absent
         /\ pc \in {"detail", "refresh"} => cur \in todo /\ cur \in Refs
<1>1. stage \in Stages /\ todo \subseteq Family(stage) /\ input \in Inputs
  BY DEF IInv, TypeOK
<1>2. /\ Right(Before(stage) \cup Family(stage)) /\ \A r \in todo : products[r] # Absent
      /\ pc \in {"detail", "refresh"} => cur \in todo
  BY DEF IInv, Progress
<1>3. Family(stage) \subseteq Refs /\ Before(stage) \subseteq Refs
  BY <1>1, Families
<1>4. QED
  BY <1>1, <1>2, <1>3 DEF Right, CurrentProduct

(* What is known of a plan that was recorded. *)
LEMMA PlanForParts ==
  \A i \in Inputs : /\ PlanFor(i).products = ProductsOf(i) /\ PlanFor(i).claims = i.claims
                    /\ PlanFor(i).evidence = i.evidence
                    /\ \A r \in Refs : ProductsOf(i)[r] # Absent =>
                         PlanFor(i).signatures[r]
                           = [k \in KindsOf(FamilyOf(r)) |-> Project(ProductsOf(i), i, r, k)]
  BY DEF PlanFor, PlanWith, SignaturesOf

-----------------------------------------------------------------------------
(* The plans. *)

(* The summary is read when the run starts on its products, and replaced   *)
(* at its end by the plan of its input.                                    *)
LEMMA PlansRecordedKept ==
  ASSUME IInv, IInv', PlansRecorded, [Next]_vars
  PROVE  PlansRecorded'
<1> USE DEF Loaded, Writers
<1>1. CASE UNCHANGED vars
  BY <1>1 DEF vars, store, local, PlansRecorded, PlanRecorded
<1>2. ASSUME NEW i \in Inputs, EditRaw(i) PROVE PlansRecorded'
  BY <1>2 DEF EditRaw, PlansRecorded, PlanRecorded
<1>3. ASSUME NEW f \in Files, NEW c \in Damage(f), Disturb(f, c) PROVE PlansRecorded'
  BY <1>3 DEF Disturb, PlansRecorded, PlanRecorded
<1>4. ASSUME NEW m \in Modes, StartNormalize(m) PROVE PlansRecorded'
  BY <1>4 DEF StartNormalize, store, PlansRecorded, PlanRecorded
<1>5. CASE WriteEvidenceSet
  BY <1>5 DEF WriteEvidenceSet, PlansRecorded, PlanRecorded
<1>6. CASE WriteClaimSet
  BY <1>6 DEF WriteClaimSet, PlansRecorded, PlanRecorded
<1>7. CASE ResolveKernels
  BY <1>7 DEF ResolveKernels, store, PlansRecorded, PlanRecorded
<1>8. ASSUME NEW r \in Refs, ReuseKernel(r) \/ RebuildKernel(r) PROVE PlansRecorded'
  BY <1>8 DEF ReuseKernel, RebuildKernel, store, PlansRecorded, PlanRecorded
<1>9. CASE ReuseDetail \/ DecideRefresh \/ RefreshDetail
  BY <1>9 DEF ReuseDetail, DecideRefresh, RefreshDetail, store, PlansRecorded, PlanRecorded
<1>10. CASE FinishStage
  BY <1>10 DEF FinishStage, store, PlansRecorded, PlanRecorded
<1>11. CASE Prune \/ WriteMirrors
  BY <1>11 DEF Prune, WriteMirrors, local, PlansRecorded, PlanRecorded
<1>12. CASE WriteSummary
  <2>1. products = ProductsOf(input) /\ input \in Inputs /\ input' = input
    BY <1>12 DEF WriteSummary, IInv, TypeOK, Progress, Finishing, local
  <2>2. summary' = PlanFor(input)
    BY <1>12, <2>1 DEF WriteSummary, Plan, PlanFor
  <2>3. QED
    BY <1>12, <2>1, <2>2 DEF WriteSummary, PlansRecorded, PlanRecorded
<1>13. CASE EndRun
  BY <1>13 DEF EndRun, store, PlansRecorded, PlanRecorded
<1>14. CASE Crash
  BY <1>14 DEF Crash, Abort, CrashBetweenSteps, CrashWritingUpstream, CrashWritingKernel,
     CrashWritingDetail, CrashPruning, CrashWritingMirrors, CrashWritingSummary,
     PlansRecorded, PlanRecorded
<1>15. QED
  BY <1>1, <1>2, <1>3, <1>4, <1>5, <1>6, <1>7, <1>8, <1>9, <1>10, <1>11, <1>12, <1>13, <1>14
  DEF Next, RunStep

-----------------------------------------------------------------------------
(* The files. *)

(* A history without crashes and damage had none before its last step. *)
LEMMA NoFaultBefore ==
  ASSUME IInv, [Next]_vars, crashes' = 0, disturbances' = 0
  PROVE  /\ ~Crash /\ ~\E f \in Files : \E c \in Damage(f) : Disturb(f, c)
         /\ crashes = 0 /\ disturbances = 0
<1>1. crashes \in Nat /\ disturbances \in Nat
  BY BoundsAreNaturals DEF IInv, TypeOK
<1>2. ~Crash
  BY <1>1 DEF Crash, Abort, CrashBetweenSteps, CrashWritingUpstream, CrashWritingKernel,
     CrashWritingDetail, CrashPruning, CrashWritingMirrors, CrashWritingSummary
<1>3. ~\E f \in Files : \E c \in Damage(f) : Disturb(f, c)
  BY <1>1 DEF Disturb
<1>4. crashes' = crashes /\ disturbances' = disturbances
  BY <1>2, <1>3 DEF Next, RunStep, vars, faults, EditRaw, StartNormalize, WriteEvidenceSet,
     WriteClaimSet, ResolveKernels, ReuseKernel, RebuildKernel, ReuseDetail, DecideRefresh,
     RefreshDetail, FinishStage, Prune, WriteMirrors, WriteSummary, EndRun
<1>5. QED
  BY <1>2, <1>3, <1>4

(* Every file a run writes is of a product of its input, and pruning takes *)
(* what only the recorded plan names.                                      *)
LEMMA FilesNamedKept ==
  ASSUME IInv, IInv', PlansRecorded, PlansRecorded', FilesNamed, [Next]_vars
  PROVE  FilesNamed'
<1> SUFFICES ASSUME crashes' = 0, disturbances' = 0,
                    NEW r \in Refs, NEW k \in {"kernel"} \cup DetailKinds, IsFile(<< r, k >>)'
             PROVE  \/ pc' \notin {"mirrors", "summary", "published"} /\ Named(r)'
                    \/ r \in Made' /\ CurrentProduct(r)'
  BY DEF FilesNamed
<1> DEFINE Before_ == \/ pc \notin {"mirrors", "summary", "published"} /\ Named(r)
                      \/ r \in Made /\ CurrentProduct(r)
<1>0. /\ IsFile(<< r, k >>) => Before_
      /\ << r, k >> \in Files /\ disk \in DiskType
  BY NoFaultBefore DEF FilesNamed, Files, IInv, TypeOK, DiskType
<1>1. CASE UNCHANGED vars
  BY <1>0, <1>1 DEF vars, store, local, IsFile, Named, Made, CurrentProduct
<1>2. ASSUME NEW i \in Inputs, EditRaw(i) PROVE Before_'
  BY <1>0, <1>2 DEF EditRaw, local, IsFile, Named, Made, CurrentProduct
<1>3. ASSUME NEW m \in Modes, StartNormalize(m) PROVE Before_'
  BY <1>0, <1>3 DEF StartNormalize, store, IsFile, Named, Made, Writers, Finishing
<1>4. CASE WriteEvidenceSet
  BY <1>0, <1>4 DEF WriteEvidenceSet, IsFile, Named, Made, Writers, Finishing
<1>5. CASE WriteClaimSet
  BY <1>0, <1>5 DEF WriteClaimSet, IsFile, Named, Made, Writers, Finishing
<1>6. CASE ResolveKernels
  BY <1>0, <1>6 DEF ResolveKernels, store, IsFile, Named, Made, Writers, Finishing, CurrentProduct
<1>7. ASSUME NEW q \in Refs, ReuseKernel(q) \/ RebuildKernel(q) PROVE Before_'
  <2>1. /\ pc = "kernel" /\ pc' = "detail" /\ stage' = stage /\ summary' = summary
        /\ input' = input /\ q \in todo
    BY <1>7 DEF ReuseKernel, RebuildKernel, store
  <2>2. q \in Family(stage) /\ CurrentProduct(q)
    BY <2>1, WhileWriting DEF Writers
  <2>3. CASE << r, k >> = KernelFile(q)
    BY <2>1, <2>2, <2>3 DEF KernelFile, Made, Writers, CurrentProduct
  <2>4. CASE << r, k >> # KernelFile(q)
    <3>1. disk'[<< r, k >>] = disk[<< r, k >>]
      BY <1>0, <1>7, <2>4 DEF ReuseKernel, RebuildKernel, store, DiskType
    <3>2. QED
      BY <1>0, <2>1, <3>1 DEF IsFile, Named, Made, Writers, CurrentProduct
  <2>5. QED
    BY <2>3, <2>4
<1>8. CASE ReuseDetail \/ DecideRefresh \/ RefreshDetail
  <2>1. /\ pc \in {"detail", "refresh"} /\ pc' \in {"kernel", "detail", "refresh"}
        /\ stage' = stage /\ summary' = summary /\ input' = input
    BY <1>8 DEF ReuseDetail, DecideRefresh, RefreshDetail, store
  <2>2. cur \in Family(stage) /\ CurrentProduct(cur)
    BY <2>1, WhileWriting DEF Writers
  <2>3. CASE << r, k >> = Refreshing
    BY <2>1, <2>2, <2>3 DEF Refreshing, Made, Writers, CurrentProduct
  <2>4. CASE << r, k >> # Refreshing
    <3>1. disk'[<< r, k >>] = disk[<< r, k >>]
      BY <1>0, <1>8, <2>4 DEF ReuseDetail, DecideRefresh, RefreshDetail, store, DiskType
    <3>2. QED
      BY <1>0, <2>1, <3>1 DEF IsFile, Named, Made, Writers, CurrentProduct
  <2>5. QED
    BY <2>3, <2>4
<1>9. CASE FinishStage
  <2>1. /\ disk' = disk /\ summary' = summary /\ input' = input /\ pc = "kernel"
        /\ pc' \in {"prune", "resolve"}
    BY <1>9 DEF FinishStage, store
  <2>2. Made \subseteq Made'
    BY <1>9, WhileWriting, Families DEF FinishStage, Made, Writers, Finishing, Stages
  <2>3. QED
    BY <1>0, <2>1, <2>2 DEF IsFile, Named, CurrentProduct
<1>10. CASE Prune
  <2>1. /\ pc = "prune" /\ pc' = "mirrors" /\ input' = input /\ prior = summary
        /\ products = ProductsOf(input)
    BY <1>10 DEF Prune, local, PlansRecorded, Loaded, IInv, Progress, Finishing
  <2>2. r \notin Pruned /\ IsFile(<< r, k >>)
    BY <1>0, <1>10 DEF Prune, IsFile
  <2>3. r \in Made' /\ (Named(r) => CurrentProduct(r))
    BY <2>1, <2>2 DEF Made, Writers, Finishing, Named, Pruned, CurrentProduct
  <2>4. QED
    BY <1>0, <2>1, <2>2, <2>3 DEF CurrentProduct
<1>11. CASE WriteMirrors \/ WriteSummary
  BY <1>0, <1>11 DEF WriteMirrors, WriteSummary, local, IsFile, Named, Made, Writers, Finishing,
     CurrentProduct
<1>12. CASE EndRun
  <2>1. /\ pc = "published" /\ pc' = "idle" /\ disk' = disk /\ summary' = summary
        /\ summary = PlanFor(input) /\ input \in Inputs
    BY <1>12 DEF EndRun, store, PlansRecorded, IInv, TypeOK
  <2>2. CurrentProduct(r) => Named(r)
    BY <2>1, PlansArePlans, PlanForParts DEF CurrentProduct, Named
  <2>3. QED
    BY <1>0, <2>1, <2>2 DEF IsFile, Named
<1>13. QED
  BY <1>1, <1>2, <1>3, <1>4, <1>5, <1>6, <1>7, <1>8, <1>9, <1>10, <1>11, <1>12, NoFaultBefore
  DEF Next, RunStep

-----------------------------------------------------------------------------
(* Reuse. *)

(* Resolving a family: what is read back needs no writing, and what is     *)
(* found invalid is a current product whose kernel differs.                *)
LEMMA ResolveGrounds ==
  ASSUME IInv, IInv', ResolveKernels
  PROVE  ReuseGrounds'
<1>0. /\ stage \in Stages /\ input \in Inputs /\ pc' = "kernel" /\ stage' = stage /\ disk' = disk
      /\ input' = input /\ prior' = prior /\ mode' = mode /\ PlanSound(prior) /\ TypeOK
      /\ input.claims # NoClaims /\ Right(Before(stage)) /\ invalid' = InvalidOnResolve
      /\ built' = ~UsePrior /\ Family(stage) \subseteq Refs
  BY Families DEF IInv, TypeOK, Progress, ResolveKernels, store
<1>1. \A r \in Family(stage) : products'[r] = ProductsOf(input)[r]
  BY <1>0, WhileWriting DEF IInv, Progress, Writers, Right
<1>2. \A r \in Family(stage) : Build(stage)[r] = ProductsOf(input)[r]
  BY <1>0, BuildIsTruth
<1>3. ASSUME stage = "EF", ~built'
      PROVE  /\ mode # "rebuild" /\ prior # NoPlan /\ invalid' = {}
             /\ prior.products = ProductsOf(input)
             /\ \A r \in todo' : IsFile(KernelFile(r))
  <2>1. UsePrior /\ CanUsePrior
    BY <1>0, <1>3 DEF UsePrior
  <2>2. mode # "rebuild" /\ prior # NoPlan /\ prior.products = ProductsOf(input)
    BY <1>0, <2>1, PriorIsTruth DEF CanUsePrior
  <2>3. invalid' = {}
    BY <1>0, <2>1 DEF UsePrior, InvalidOnResolve
  <2>4. \A r \in todo' : r \in PriorRefs(stage)
    BY <1>0, <1>1, <2>2 DEF ResolveKernels, PriorRefs
  <2>5. QED
    BY <2>1, <2>2, <2>3, <2>4 DEF CanUsePrior
<1>4. ASSUME NEW r \in invalid'
      PROVE  r \in Family(stage) /\ CurrentProduct(r) /\ disk[KernelFile(r)] # products'[r]
  <2>1. CASE CanUsePrior
    <3>1. r \in PriorRefs(stage) /\ Mismatch(r, prior.products[r])
      BY <1>0, <1>4, <2>1 DEF InvalidOnResolve, PriorMismatches
    <3>2. prior # NoPlan /\ prior.products = ProductsOf(input)
      BY <1>0, <2>1, PriorIsTruth DEF CanUsePrior
    <3>3. QED
      BY <1>1, <3>1, <3>2 DEF PriorRefs, Mismatch, CurrentProduct
  <2>2. CASE ~CanUsePrior
    <3>1. stage = "EF" /\ r \in EFRefs /\ Build("EF")[r] # Absent /\ Mismatch(r, Build("EF")[r])
      BY <1>0, <1>4, <2>2 DEF InvalidOnResolve
    <3>2. QED
      BY <1>1, <1>2, <3>1, Families DEF Mismatch, CurrentProduct
  <2>3. QED
    BY <2>1, <2>2
<1>5. QED
  BY <1>0, <1>3, <1>4 DEF ReuseGrounds, Writers, IsFile, KernelFile, CurrentProduct

(* A kernel that had to be written although prior kernels stood for the    *)
(* family would contradict what allowed them to.                           *)
LEMMA RebuiltMeansBuilt ==
  ASSUME IInv, ReuseGrounds, NEW r \in Refs, RebuildKernel(r), stage = "EF"
  PROVE  built
<1> SUFFICES ASSUME ~built PROVE FALSE
  OBVIOUS
<1>1. /\ pc = "kernel" /\ r \in todo /\ ~KernelReusable(r) /\ mode # "rebuild" /\ prior # NoPlan
      /\ invalid = {} /\ prior.products = ProductsOf(input) /\ IsFile(KernelFile(r))
  BY DEF RebuildKernel, ReuseGrounds, Writers
<1>2. /\ r \in EFRefs /\ input \in Inputs /\ input.claims # NoClaims /\ CurrentProduct(r)
      /\ products[r] = ProductsOf(input)[r]
  BY <1>1, WhileWriting, Families DEF Writers, IInv, Progress
<1>3. PriorRefs("EF") = {r}
  <2>1. PICK q \in EFRefs : \A p \in EFRefs : EconomicFactsOf(input)[p] # Absent <=> p = q
    BY <1>2, BuildersTyped
  <2>2. \A p \in EFRefs : ProductsOf(input)[p] = EconomicFactsOf(input)[p]
    BY <1>2 DEF ProductsOf, Refs
  <2>3. QED
    BY <1>1, <1>2, <2>1, <2>2, Families DEF PriorRefs, CurrentProduct
<1>4. ~KernelInvalid(r)
  BY <1>1 DEF KernelInvalid
<1>5. PriorFingerprint(r) = products[r]
  <2>1. PriorRefs("EF") # {} /\ (CHOOSE q \in PriorRefs("EF") : TRUE) = r
    BY <1>3
  <2>2. PriorFingerprint(r) = prior.products[r]
    BY <1>4, <2>1 DEF PriorFingerprint
  <2>3. QED
    BY <1>1, <1>2, <2>2
<1>6. QED
  BY <1>1, <1>4, <1>5 DEF KernelReusable

(* While a family is written, only the kernels on the work list may still  *)
(* be the ones found invalid.                                              *)
LEMMA ReuseGroundsKept ==
  ASSUME IInv, IInv', ReuseGrounds, [Next]_vars
  PROVE  ReuseGrounds'
<1>1. CASE UNCHANGED vars
  BY <1>1 DEF vars, store, local, ReuseGrounds, IsFile, KernelFile, CurrentProduct
<1>2. CASE pc' \notin Writers
  BY <1>2 DEF ReuseGrounds, Writers
<1>3. CASE ResolveKernels
  BY <1>3, ResolveGrounds
<1>4. ASSUME NEW r \in Refs, ReuseKernel(r) \/ RebuildKernel(r) PROVE ReuseGrounds'
  <2>0. /\ pc = "kernel" /\ pc' = "detail" /\ r \in todo /\ cur' = r
        /\ UNCHANGED << mode, input, prior, stage, todo, products, built, invalid >>
    BY <1>4 DEF ReuseKernel, RebuildKernel
  <2>1. /\ \A q \in Refs : q # r => disk'[KernelFile(q)] = disk[KernelFile(q)]
        /\ IsFile(KernelFile(r)) => IsFile(KernelFile(r))'
        /\ kernelAction'[r] \in {"reused", "rebuilt"}
        /\ kernelAction'[r] = "rebuilt" => RebuildKernel(r)
    <3>0. KernelFile(r) \in Files /\ disk \in DiskType /\ products[r] # Absent
          /\ products[r] \in MaybeKernels /\ kernelAction \in [Refs -> {"reused", "rebuilt", Absent}]
      BY <2>0, WhileWriting DEF KernelFile, Files, IInv, TypeOK, DiskType, Writers
    <3>1. \A q \in Refs : q # r => KernelFile(q) # KernelFile(r) /\ KernelFile(q) \in Files
      BY DEF KernelFile, Files
    <3>2. CASE ReuseKernel(r)
      <4>1. disk' = disk /\ kernelAction' = [kernelAction EXCEPT ![r] = "reused"]
        BY <3>2 DEF ReuseKernel, store
      <4>2. QED
        BY <3>0, <4>1 DEF IsFile
    <3>3. CASE RebuildKernel(r)
      <4>1. /\ disk' = [disk EXCEPT ![KernelFile(r)] = products[r]]
            /\ kernelAction' = [kernelAction EXCEPT ![r] = "rebuilt"]
        BY <3>3 DEF RebuildKernel
      <4>2. products[r] # Missing
        BY <3>0, SentinelsDistinct DEF MaybeKernels
      <4>3. QED
        BY <3>0, <3>1, <3>3, <4>1, <4>2 DEF IsFile, DiskType
    <3>4. QED
      BY <1>4, <3>2, <3>3
  <2>2. stage = "EF" /\ kernelAction'[r] = "rebuilt" => built
    BY <2>1, RebuiltMeansBuilt
  <2>3. todo \subseteq Refs /\ invalid \subseteq Refs
    BY <2>0, WhileWriting DEF Writers, IInv, TypeOK
  <2>4. stage = "EF" /\ ~built => \A q \in todo : IsFile(KernelFile(q))'
    <3>1. stage = "EF" /\ ~built => \A q \in todo : IsFile(KernelFile(q))
      BY <2>0 DEF ReuseGrounds, Writers
    <3>2. QED
      BY <2>1, <2>3, <3>1 DEF IsFile
  <2>5. /\ invalid \subseteq Family(stage)
        /\ \A q \in invalid : CurrentProduct(q) /\ (q \in todo => disk[KernelFile(q)] # products[q])
    BY <2>0 DEF ReuseGrounds, Writers
  <2>6. stage = "EF" /\ ~built => /\ mode # "rebuild" /\ prior # NoPlan /\ invalid = {}
                                  /\ prior.products = ProductsOf(input)
    BY <2>0 DEF ReuseGrounds, Writers
  <2>7. QED
    BY <2>0, <2>1, <2>2, <2>3, <2>4, <2>5, <2>6 DEF ReuseGrounds, Writers, CurrentProduct
<1>5. CASE ReuseDetail \/ DecideRefresh \/ RefreshDetail
  <2>0. /\ pc \in {"detail", "refresh"} /\ pc' \in {"kernel", "refresh"}
        /\ todo' = (IF pc' = "kernel" THEN todo \ {cur} ELSE todo)
        /\ UNCHANGED << mode, input, prior, stage, cur, products, built, invalid, kernelAction >>
    BY <1>5 DEF ReuseDetail, DecideRefresh, RefreshDetail
  <2>1. \A q \in Refs : disk'[KernelFile(q)] = disk[KernelFile(q)]
    <3>1. CASE ReuseDetail \/ DecideRefresh
      BY <3>1 DEF ReuseDetail, DecideRefresh, store
    <3>2. CASE RefreshDetail
      <4>1. DetailFiles(stage)[writing] \in DetailKinds
        BY <3>2, ProjectTyped DEF RefreshDetail
      <4>2. \A q \in Refs : KernelFile(q) # Refreshing /\ KernelFile(q) \in Files
        BY <4>1 DEF Refreshing, Files, KernelFile, DetailKinds
      <4>3. disk \in DiskType /\ disk' = [disk EXCEPT ![Refreshing] =
                                Project(products, input, cur, DetailFiles(stage)[writing])]
        BY <3>2 DEF RefreshDetail, IInv, TypeOK, DiskType
      <4>4. QED
        BY <4>2, <4>3 DEF DiskType
    <3>3. QED
      BY <1>5, <3>1, <3>2
  <2>2. todo \subseteq Refs /\ invalid \subseteq Refs
    BY <2>0, WhileWriting DEF Writers, IInv, TypeOK
  <2>3. QED
    BY <2>0, <2>1, <2>2 DEF ReuseGrounds, Writers, CurrentProduct, IsFile
<1>6. \/ UNCHANGED vars \/ pc' \notin Writers \/ ResolveKernels
      \/ \E r \in Refs : ReuseKernel(r) \/ RebuildKernel(r)
      \/ ReuseDetail \/ DecideRefresh \/ RefreshDetail
  BY DEF Next, RunStep, Writers, EditRaw, Disturb, StartNormalize, WriteEvidenceSet,
     WriteClaimSet, FinishStage, Prune, WriteMirrors, WriteSummary, EndRun,
     Crash, Abort, CrashBetweenSteps, CrashWritingUpstream, CrashWritingKernel,
     CrashWritingDetail, CrashPruning, CrashWritingMirrors, CrashWritingSummary
<1>7. QED
  BY <1>1, <1>2, <1>3, <1>4, <1>5, <1>6

-----------------------------------------------------------------------------
(* The details. *)

(* Reading a detail file for reuse is reading the right rows: its plan     *)
(* says what it should hold, and nothing went wrong since it was written.  *)
LEMMA ReusedDetailIsRight ==
  ASSUME IInv, PlansRecorded, DetailsRecorded, ReuseDetail, ~exposed
  PROVE  \A k \in KindsOf(stage) : disk[<< cur, k >>] = TruthRows(cur, k)
<1>0. /\ pc = "detail" /\ prior = summary /\ cur \in todo /\ cur \in Family(stage) /\ cur \in Refs
      /\ stage \in Stages /\ DetailReusable(cur) /\ cur \notin Done /\ CurrentProduct(cur)
      /\ input \in Inputs /\ input.claims # NoClaims
  BY WhileWriting DEF ReuseDetail, PlansRecorded, Loaded, Writers, Done, IInv, Progress
<1>1. \A k \in KindsOf(stage) : Project(products, input, cur, k) = TruthRows(cur, k)
  BY <1>0, ProjectIsTruth DEF Writers
<1>2. Signature(cur) \in [KindsOf(stage) -> DetailRows]
  BY <1>0, <1>1, BuildersTyped DEF Signature, CurrentProduct, TruthRows
<1>3. cur \in PriorRefs(stage) /\ prior.signatures[cur] = Signature(cur)
  BY <1>0, <1>2, SentinelsDistinct DEF DetailReusable, PriorSignature
<1>4. Named(cur) /\ FamilyOf(cur) = stage
  BY <1>0, <1>3, KindsOfFamilies DEF PriorRefs, Named
<1>5. \A k \in KindsOf(stage) : disk[<< cur, k >>] = summary.signatures[cur][k]
  BY <1>0, <1>4 DEF DetailsRecorded, Finishing
<1>6. \A k \in KindsOf(stage) : Signature(cur)[k] = TruthRows(cur, k)
  BY <1>1 DEF Signature
<1>7. QED
  BY <1>0, <1>3, <1>5, <1>6

(* Deciding and writing the details of one product. *)
LEMMA DetailStepRight ==
  ASSUME IInv, IInv', PlansRecorded, DetailsDone, DetailsRecorded,
         ReuseDetail \/ DecideRefresh \/ RefreshDetail
  PROVE  DetailsDone' /\ DetailsRecorded'
<1>0. /\ pc \in {"detail", "refresh"} /\ pc' \in {"kernel", "refresh"} /\ pc \in Writers
      /\ cur \in todo /\ cur \in Family(stage) /\ cur \in Refs /\ stage \in Stages
      /\ FamilyOf(cur) = stage /\ todo \subseteq Family(stage)
      /\ todo' = (IF pc' = "kernel" THEN todo \ {cur} ELSE todo)
      /\ UNCHANGED << mode, input, prior, stage, cur, products, summary, exposed >>
      /\ disk \in DiskType /\ rows \in [Files -> Kernels \cup DetailRows \cup {Absent, Partial}]
  BY WhileWriting, KindsOfFamilies
  DEF ReuseDetail, DecideRefresh, RefreshDetail, store, faults, Writers, IInv, TypeOK, DiskType
<1>1. \A r \in Refs : \A k \in DetailKinds :
        r # cur => disk'[<< r, k >>] = disk[<< r, k >>] /\ rows'[<< r, k >>] = rows[<< r, k >>]
  <2>1. \A r \in Refs : \A k \in DetailKinds :
          << r, k >> \in Files /\ (r # cur => << r, k >> # Refreshing) /\ << r, k >>[1] = r
    BY DEF Files, Refreshing
  <2>2. CASE ReuseDetail
    BY <1>0, <2>1, <2>2 DEF ReuseDetail, store
  <2>3. CASE DecideRefresh
    BY <2>3 DEF DecideRefresh, store
  <2>4. CASE RefreshDetail
    BY <1>0, <2>1, <2>4 DEF RefreshDetail, DiskType
  <2>5. QED
    BY <2>2, <2>3, <2>4
<1>2. pc' = "kernel" /\ Healing => \A k \in KindsOf(stage) : DetailRight(cur, k)'
  <2> SUFFICES ASSUME pc' = "kernel", Healing, NEW k \in KindsOf(stage)
               PROVE  DetailRight(cur, k)'
    OBVIOUS
  <2>0. k \in DetailKinds /\ << cur, k >> \in Files /\ << cur, k >>[1] = cur /\ << cur, k >>[2] = k
    BY <1>0, KindsOfFamilies DEF Files
  <2>1. CASE ReuseDetail
    <3>1. ~exposed
      BY <2>1 DEF ReuseDetail, DetailReusable, Healing
    <3>2. disk[<< cur, k >>] = TruthRows(cur, k) /\ disk' = disk
      BY <2>1, <3>1, ReusedDetailIsRight DEF ReuseDetail, store
    <3>3. rows'[<< cur, k >>] = disk[<< cur, k >>]
      BY <2>0, <2>1 DEF ReuseDetail
    <3>4. QED
      BY <1>0, <3>2, <3>3 DEF DetailRight, TruthRows
  <2>2. CASE RefreshDetail
    <3>0. pc = "refresh" /\ writing = Len(DetailFiles(stage)) /\ writing \in {1, 2}
      BY <2>2 DEF RefreshDetail, IInv, TypeOK
    <3>1. CASE k = DetailFiles(stage)[writing]
      <4>1. << cur, k >> = Refreshing
        BY <3>1 DEF Refreshing
      <4>2. /\ disk'[<< cur, k >>] = Project(products, input, cur, k)
            /\ rows'[<< cur, k >>] = Project(products, input, cur, k)
        BY <1>0, <2>0, <2>2, <3>1, <4>1 DEF RefreshDetail, DiskType
      <4>3. QED
        BY <1>0, <4>2, ProjectIsTruth DEF DetailRight, TruthRows
    <3>2. CASE k # DetailFiles(stage)[writing]
      <4>0. /\ DetailFiles("EF")[1] = "facts" /\ DetailFiles("EF")[2] = "annotations"
            /\ DetailFiles("RS")[1] = "snapshots" /\ DetailFiles("CP")[1] = "references"
        BY DetailFilesOf
      <4>1. stage = "EF" /\ writing = 2 /\ k = "facts"
        <5>1. CASE stage = "EF"
          BY <1>0, <3>0, <3>2, <4>0, <5>1, KindsOfFamilies, DetailFilesOf
        <5>2. CASE stage = "RS"
          BY <1>0, <3>0, <3>2, <4>0, <5>2, KindsOfFamilies, DetailFilesOf
        <5>3. CASE stage = "CP"
          BY <1>0, <3>0, <3>2, <4>0, <5>3, KindsOfFamilies, DetailFilesOf
        <5> QED
          BY <1>0, <5>1, <5>2, <5>3 DEF Stages
      <4>2. DetailRight(cur, k)
        BY <3>0, <4>1 DEF DetailsDone
      <4>3. << cur, k >> # Refreshing
        BY <3>2 DEF Refreshing
      <4>4. disk'[<< cur, k >>] = disk[<< cur, k >>] /\ rows'[<< cur, k >>] = rows[<< cur, k >>]
        BY <1>0, <2>0, <2>2, <4>3 DEF RefreshDetail, DiskType
      <4>5. QED
        BY <1>0, <4>2, <4>4 DEF DetailRight, TruthRows
    <3>3. QED
      BY <3>1, <3>2
  <2>3. QED
    BY <2>1, <2>2 DEF DecideRefresh
<1>3. pc' = "refresh" /\ writing' = 2 => DetailRight(cur, "facts")'
  <2> SUFFICES ASSUME pc' = "refresh", writing' = 2 PROVE DetailRight(cur, "facts")'
    OBVIOUS
  <2>1. RefreshDetail /\ writing' = writing + 1 /\ writing = 1 /\ stage = "EF"
    BY <1>0, WritingBounds DEF ReuseDetail, DecideRefresh, RefreshDetail, IInv, TypeOK
  <2>2. Refreshing = << cur, "facts" >> /\ << cur, "facts" >> \in Files
    BY <1>0, <2>1, DetailFilesOf DEF Refreshing, Files, DetailKinds
  <2>3. /\ disk'[<< cur, "facts" >>] = Project(products, input, cur, "facts")
        /\ rows'[<< cur, "facts" >>] = Project(products, input, cur, "facts")
    BY <1>0, <2>1, <2>2, DetailFilesOf DEF RefreshDetail, DiskType
  <2>4. QED
    BY <1>0, <2>3, ProjectIsTruth DEF DetailRight, TruthRows
<1>4. /\ cur \notin Done /\ Done \subseteq Refs
      /\ Done' = IF pc' = "kernel" THEN Done \cup {cur} ELSE Done
  BY <1>0, WhileWriting DEF Done, Made, Writers
<1>5. DetailsDone'
  <2>1. ASSUME Healing', NEW r \in Done', CurrentProduct(r)', NEW k \in KindsOf(FamilyOf(r))
        PROVE  DetailRight(r, k)'
    <3>1. CASE r = cur
      BY <1>0, <1>2, <1>4, <2>1, <3>1 DEF Healing
    <3>2. CASE r # cur
      <4>1. r \in Done /\ CurrentProduct(r) /\ Healing /\ k \in DetailKinds
        BY <1>0, <1>4, <2>1, <3>2, KindsOfFamilies DEF Healing, CurrentProduct
      <4>2. DetailRight(r, k)
        BY <2>1, <4>1 DEF DetailsDone
      <4>3. QED
        BY <1>0, <1>1, <1>4, <3>2, <4>1, <4>2 DEF DetailRight, TruthRows
    <3>3. QED
      BY <3>1, <3>2
  <2>2. QED
    BY <1>0, <1>3, <2>1 DEF DetailsDone
<1>6. DetailsRecorded'
  <2>1. ASSUME ~exposed, NEW r \in Refs \ Done', Named(r), ~(pc' = "refresh" /\ r = cur),
               NEW k \in KindsOf(FamilyOf(r))
        PROVE  disk'[<< r, k >>] = summary.signatures[r][k]
    <3>1. r # cur /\ r \in Refs \ Done /\ k \in DetailKinds
      BY <1>0, <1>4, <2>1, KindsOfFamilies
    <3>2. disk[<< r, k >>] = summary.signatures[r][k]
      BY <1>0, <2>1, <3>1 DEF DetailsRecorded, Writers, Finishing
    <3>3. QED
      BY <1>1, <3>1, <3>2
  <2>2. QED
    BY <1>0, <2>1 DEF DetailsRecorded, Named
<1>7. QED
  BY <1>5, <1>6

(* Before a run has products, nothing is claimed of them. *)
LEMMA StartDetailsKept ==
  ASSUME IInv, DetailsDone, DetailsRecorded,
         \/ \E i \in Inputs : EditRaw(i)
         \/ \E m \in Modes : StartNormalize(m)
         \/ WriteEvidenceSet \/ WriteClaimSet
  PROVE  DetailsDone' /\ DetailsRecorded'
<1> USE DEF Done, Made, Writers, Finishing
<1>1. ASSUME NEW i \in Inputs, EditRaw(i) PROVE DetailsDone' /\ DetailsRecorded'
  BY <1>1 DEF EditRaw, local, faults, DetailsDone, DetailsRecorded, Named
<1>2. ASSUME NEW m \in Modes, StartNormalize(m) PROVE DetailsDone' /\ DetailsRecorded'
  BY <1>2 DEF StartNormalize, store, faults, DetailsDone, DetailsRecorded, Named
<1>3. CASE WriteEvidenceSet
  BY <1>3 DEF WriteEvidenceSet, faults, DetailsDone, DetailsRecorded, Named
<1>4. CASE WriteClaimSet
  <2>1. /\ pc = "claims" /\ stage = "EF" /\ todo = {} /\ disk' = disk /\ summary' = summary
        /\ exposed' = exposed /\ input' = input /\ stage' = stage
        /\ pc' = IF input.claims = NoClaims THEN "prune" ELSE "resolve"
    BY <1>4 DEF WriteClaimSet, faults, IInv, Progress
  <2>2. CASE input.claims = NoClaims
    <3>1. \A r \in Refs : ~CurrentProduct(r)'
      BY <2>1, <2>2 DEF CurrentProduct, ProductsOf
    <3>2. QED
      BY <2>1, <2>2, <3>1 DEF DetailsDone, DetailsRecorded
  <2>3. CASE input.claims # NoClaims
    BY <2>1, <2>3, Families DEF DetailsDone, DetailsRecorded, Named
  <2>4. QED
    BY <2>2, <2>3
<1>5. QED
  BY <1>1, <1>2, <1>3, <1>4

(* Kernels and the order of families do not touch details. *)
LEMMA KernelDetailsKept ==
  ASSUME IInv, IInv', DetailsDone, DetailsRecorded,
         \/ ResolveKernels \/ FinishStage
         \/ \E r \in Refs : ReuseKernel(r) \/ RebuildKernel(r)
  PROVE  DetailsDone' /\ DetailsRecorded'
<1>1. /\ pc \in {"resolve", "kernel"} /\ pc' \in {"kernel", "detail", "prune", "resolve"}
      /\ UNCHANGED << input, mode, summary, exposed, rows >>
  BY DEF ResolveKernels, FinishStage, ReuseKernel, RebuildKernel, store, faults
<1>2. \A r \in Refs : \A k \in DetailKinds : disk'[<< r, k >>] = disk[<< r, k >>]
  <2>1. CASE ResolveKernels \/ FinishStage
    BY <2>1 DEF ResolveKernels, FinishStage, store
  <2>2. ASSUME NEW q \in Refs, ReuseKernel(q) \/ RebuildKernel(q)
        PROVE  \A r \in Refs : \A k \in DetailKinds : disk'[<< r, k >>] = disk[<< r, k >>]
    <3>1. \A r \in Refs : \A k \in DetailKinds : << r, k >> # KernelFile(q) /\ << r, k >> \in Files
      BY DEF KernelFile, Files, DetailKinds
    <3>2. disk \in DiskType
      BY DEF IInv, TypeOK, DiskType
    <3>3. QED
      BY <2>2, <3>1, <3>2 DEF ReuseKernel, RebuildKernel, store, DiskType
  <2>3. QED
    BY <2>1, <2>2
<1>3. /\ Done \subseteq Done' /\ Done' \subseteq Refs
      /\ \A r \in Done' : r \in Done \/ ~CurrentProduct(r)
  <2>1. CASE ResolveKernels
    <3>1. /\ pc = "resolve" /\ pc' = "kernel" /\ stage' = stage /\ stage \in Stages
          /\ todo' = {r \in Family(stage) : products'[r] # Absent}
          /\ \A r \in Family(stage) : products'[r] = ProductsOf(input)[r]
      BY <2>1, WhileWriting DEF ResolveKernels, IInv, TypeOK, Progress, Writers, Right
    <3>2. Before(stage) \subseteq Refs /\ Family(stage) \subseteq Refs /\ Family(stage) \cap Before(stage) = {}
      BY <3>1, Families
    <3>3. Done = Before(stage) /\ Done' = (Before(stage) \cup Family(stage)) \ todo'
      BY <3>1 DEF Done, Made, Writers
    <3>4. QED
      BY <3>1, <3>2, <3>3 DEF CurrentProduct
  <2>2. CASE FinishStage
    <3>1. pc = "kernel" /\ todo = {} /\ stage \in Stages /\ pc \in Writers
      BY <2>2 DEF FinishStage, IInv, TypeOK, Writers
    <3>2. Done = Before(stage) \cup Family(stage)
      BY <3>1 DEF Done, Made
    <3>3. CASE stage = "CP"
      BY <2>2, <3>2, <3>3, Families DEF FinishStage, Done, Made, Writers, Finishing, Refs
    <3>4. CASE stage # "CP"
      <4>1. pc' = "resolve" /\ Before(stage') = Before(stage) \cup Family(stage)
        BY <2>2, <3>1, <3>4, Families DEF FinishStage, Stages
      <4>2. Done' = Before(stage')
        BY <4>1 DEF Done, Made, Writers
      <4>3. Before(stage) \cup Family(stage) \subseteq Refs
        BY <3>1, Families
      <4>4. QED
        BY <3>2, <4>1, <4>2, <4>3
    <3>5. QED
      BY <3>3, <3>4
  <2>3. ASSUME NEW q \in Refs, ReuseKernel(q) \/ RebuildKernel(q)
        PROVE  Done' = Done /\ Done \subseteq Refs
    <3>1. pc = "kernel" /\ pc' = "detail" /\ todo' = todo /\ stage' = stage
      BY <2>3 DEF ReuseKernel, RebuildKernel
    <3>2. QED
      BY <3>1, WhileWriting DEF Done, Made, Writers
  <2>4. QED
    BY <2>1, <2>2, <2>3
<1>4. DetailsDone'
  <2>1. ASSUME Healing', NEW r \in Done', CurrentProduct(r)', NEW k \in KindsOf(FamilyOf(r))
        PROVE  DetailRight(r, k)'
    <3>1. r \in Done /\ CurrentProduct(r) /\ Healing /\ k \in DetailKinds
      BY <1>1, <1>3, <2>1, KindsOfFamilies DEF Healing, CurrentProduct
    <3>2. DetailRight(r, k)
      BY <2>1, <3>1 DEF DetailsDone
    <3>3. QED
      BY <1>1, <1>2, <1>3, <3>1, <3>2 DEF DetailRight, TruthRows
  <2>2. QED
    BY <1>1, <2>1 DEF DetailsDone
<1>5. DetailsRecorded'
  <2>1. ASSUME ~exposed, NEW r \in Refs \ Done', Named(r), NEW k \in KindsOf(FamilyOf(r))
        PROVE  disk'[<< r, k >>] = summary.signatures[r][k]
    <3>1. r \in Refs \ Done /\ k \in DetailKinds
      BY <1>3, <2>1, KindsOfFamilies
    <3>2. disk[<< r, k >>] = summary.signatures[r][k]
      BY <1>1, <2>1, <3>1 DEF DetailsRecorded, Finishing
    <3>3. QED
      BY <1>2, <3>1, <3>2
  <2>2. QED
    BY <1>1, <2>1 DEF DetailsRecorded, Named
<1>6. QED
  BY <1>4, <1>5

(* Pruning, mirrors and summary: current details are not pruned, mirrors   *)
(* hold the gathered rows, and the plan then records what is on disk.      *)
LEMMA FinishingDetailsKept ==
  ASSUME IInv, IInv', PlansRecorded, DetailsDone, MirrorsWritten,
         Prune \/ WriteMirrors \/ WriteSummary \/ EndRun
  PROVE  DetailsDone' /\ DetailsRecorded' /\ MirrorsWritten'
<1>0. /\ pc \in Finishing /\ Done = Refs /\ products = ProductsOf(input) /\ input \in Inputs
      /\ disk \in DiskType
  BY DEF Prune, WriteMirrors, WriteSummary, EndRun, Finishing, Done, Made, Writers, IInv, Progress,
     TypeOK, DiskType
<1>1. CASE Prune
  <2>1. /\ pc' = "mirrors" /\ UNCHANGED << mode, input, rows, exposed >> /\ Done' = Refs
    BY <1>1 DEF Prune, local, faults, Done, Made, Writers, Finishing
  <2>2. \A r \in Refs : \A k \in DetailKinds :
          CurrentProduct(r) => disk'[<< r, k >>] = disk[<< r, k >>]
    <3>1. \A r \in Refs : CurrentProduct(r) => r \notin Pruned
      BY <1>0 DEF Pruned, CurrentProduct
    <3>2. \A r \in Refs : \A k \in DetailKinds : << r, k >> \in Files /\ << r, k >>[1] = r
      BY DEF Files
    <3>3. QED
      BY <1>0, <1>1, <3>1, <3>2 DEF Prune, DiskType
  <2>3. ASSUME Healing', NEW r \in Refs, CurrentProduct(r)', NEW k \in KindsOf(FamilyOf(r))
        PROVE  DetailRight(r, k)'
    <3>1. CurrentProduct(r) /\ Healing /\ k \in DetailKinds
      BY <2>1, <2>3, KindsOfFamilies DEF Healing, CurrentProduct
    <3>2. DetailRight(r, k)
      BY <1>0, <2>3, <3>1 DEF DetailsDone
    <3>3. QED
      BY <2>1, <2>2, <3>1, <3>2 DEF DetailRight, TruthRows
  <2>4. QED
    BY <2>1, <2>3 DEF DetailsDone, DetailsRecorded, MirrorsWritten, Finishing
<1>2. CASE WriteMirrors
  <2>1. /\ pc' = "summary" /\ UNCHANGED << disk, mode, input, rows, exposed, products >> /\ Done' = Refs
        /\ mirror' = [k \in MirrorKinds |-> MirrorRows(k)]
    BY <1>2 DEF WriteMirrors, local, faults, Done, Made, Writers, Finishing
  <2>2. DetailsDone' /\ DetailsRecorded'
    BY <1>0, <2>1 DEF DetailsDone, DetailsRecorded, Finishing, Healing, CurrentProduct, DetailRight, TruthRows
  <2>3. ASSUME Healing, NEW k \in MirrorKinds, k # "records", input.claims # NoClaims
        PROVE  MirrorRows(k) = [r \in CurrentFamily(k) |-> TruthRows(r, k)]
    <3>1. /\ k \in DetailKinds /\ FamilyOfKind(k) \in Stages /\ k \in KindsOf(FamilyOfKind(k))
      BY <2>3, KindsOfFamilies DEF MirrorKinds, DetailKinds, FamilyOfKind, Stages
    <3>2. Current(FamilyOfKind(k)) = CurrentFamily(k)
      BY <1>0 DEF Current, CurrentFamily
    <3>3. \A r \in CurrentFamily(k) : rows[<< r, k >>] = TruthRows(r, k)
      BY <1>0, <2>3, <3>1, KindsOfFamilies, Families
      DEF CurrentFamily, DetailsDone, CurrentProduct, DetailRight
    <3>4. QED
      BY <2>3, <3>2, <3>3 DEF MirrorRows
  <2>4. MirrorsWritten'
    <3>1. ASSUME Healing, NEW k \in MirrorKinds
          PROVE  mirror'[k] = IF k = "records" \/ input.claims = NoClaims THEN FromDrafts
                              ELSE [r \in CurrentFamily(k) |-> TruthRows(r, k)]
      BY <2>1, <2>3, <3>1 DEF MirrorRows
    <3>2. QED
      BY <2>1, <3>1 DEF MirrorsWritten, MirrorsTrue, Healing, FromDrafts, CurrentFamily, TruthRows
  <2>5. QED
    BY <2>2, <2>4
<1>3. CASE WriteSummary
  <2>1. /\ pc = "summary" /\ pc' = "published" /\ UNCHANGED << disk, mirror, mode, input, rows >>
        /\ Done' = Refs /\ exposed' = (exposed /\ mode = "auto")
    BY <1>3 DEF WriteSummary, local, Done, Made, Writers, Finishing
  <2>2. Healing' <=> Healing
    BY <2>1 DEF Healing
  <2>3. QED
    BY <1>0, <2>1, <2>2 DEF DetailsDone, DetailsRecorded, MirrorsWritten, MirrorsTrue, Finishing,
       CurrentProduct, DetailRight, TruthRows, FromDrafts, CurrentFamily
<1>4. CASE EndRun
  <2>1. /\ pc = "published" /\ pc' = "idle" /\ disk' = disk /\ summary' = summary
        /\ exposed' = exposed /\ summary = PlanFor(input) /\ Done' = {}
    BY <1>4 DEF EndRun, store, faults, PlansRecorded, Done, Made, Writers, Finishing
  <2>2. ASSUME ~exposed, NEW r \in Refs, Named(r), NEW k \in KindsOf(FamilyOf(r))
        PROVE  disk[<< r, k >>] = summary.signatures[r][k]
    <3>1. CurrentProduct(r)
      BY <1>0, <2>1, <2>2, PlanForParts DEF Named, CurrentProduct
    <3>2. DetailRight(r, k)
      BY <1>0, <2>2, <3>1 DEF DetailsDone, Healing
    <3>3. summary.signatures[r][k] = TruthRows(r, k)
      BY <1>0, <2>1, <2>2, <3>1, PlanForParts DEF CurrentProduct, TruthRows
    <3>4. QED
      BY <3>2, <3>3 DEF DetailRight
  <2>3. QED
    BY <2>1, <2>2 DEF DetailsDone, DetailsRecorded, MirrorsWritten, Named
<1>5. QED
  BY <1>1, <1>2, <1>3, <1>4

(* Details and mirrors, over all steps: a crash or damage exposes them     *)
(* until the next run that refreshes everything.                           *)
LEMMA DetailsKept ==
  ASSUME IInv, IInv', PlansRecorded, DetailsDone, DetailsRecorded, MirrorsWritten, [Next]_vars
  PROVE  DetailsDone' /\ DetailsRecorded' /\ MirrorsWritten'
<1>1. CASE UNCHANGED vars
  <2>1. UNCHANGED << disk, mirror, summary, pc, mode, input, stage, todo, cur, rows, writing, exposed >>
    BY <1>1 DEF vars, store, local, faults
  <2>2. Done' = Done /\ (Healing' <=> Healing) /\ (MirrorsTrue' <=> MirrorsTrue)
    BY <2>1 DEF Done, Made, Healing, MirrorsTrue, FromDrafts, CurrentFamily, TruthRows
  <2>3. DetailsDone' /\ DetailsRecorded'
    BY <2>1, <2>2 DEF DetailsDone, DetailsRecorded, Named, CurrentProduct, DetailRight, TruthRows
  <2>4. QED
    BY <2>1, <2>2, <2>3 DEF MirrorsWritten
<1>2. CASE Crash \/ \E f \in Files : \E c \in Damage(f) : Disturb(f, c)
  <2>1. pc' = "idle" /\ exposed' = TRUE
    BY <1>2 DEF Disturb, local, Crash, Abort, CrashBetweenSteps, CrashWritingUpstream,
       CrashWritingKernel, CrashWritingDetail, CrashPruning, CrashWritingMirrors, CrashWritingSummary
  <2>2. QED
    BY <2>1 DEF DetailsDone, DetailsRecorded, MirrorsWritten, Done, Made, Writers, Finishing
<1>3. CASE \/ \E i \in Inputs : EditRaw(i)
           \/ \E m \in Modes : StartNormalize(m)
           \/ WriteEvidenceSet \/ WriteClaimSet
  <2>1. pc' \notin {"summary", "published"}
    BY <1>3 DEF EditRaw, StartNormalize, WriteEvidenceSet, WriteClaimSet
  <2>2. QED
    BY <1>3, <2>1, StartDetailsKept DEF MirrorsWritten
<1>4. CASE \/ ResolveKernels \/ FinishStage
           \/ \E r \in Refs : ReuseKernel(r) \/ RebuildKernel(r)
  <2>1. pc' \notin {"summary", "published"}
    BY <1>4 DEF ResolveKernels, FinishStage, ReuseKernel, RebuildKernel
  <2>2. QED
    BY <1>4, <2>1, KernelDetailsKept DEF MirrorsWritten
<1>5. CASE ReuseDetail \/ DecideRefresh \/ RefreshDetail
  <2>1. pc' \notin {"summary", "published"}
    BY <1>5 DEF ReuseDetail, DecideRefresh, RefreshDetail
  <2>2. QED
    BY <1>5, <2>1, DetailStepRight DEF MirrorsWritten
<1>6. CASE Prune \/ WriteMirrors \/ WriteSummary \/ EndRun
  BY <1>6, FinishingDetailsKept
<1>7. QED
  BY <1>1, <1>2, <1>3, <1>4, <1>5, <1>6 DEF Next, RunStep

-----------------------------------------------------------------------------
(* What follows for the sequences of runs. *)

HistoryInv ==
  /\ IInv /\ PlansRecorded
  /\ FilesNamed /\ ReuseGrounds
  /\ DetailsDone /\ DetailsRecorded /\ MirrorsWritten

(* The invariant holds of a workspace without any output. *)
LEMMA InitHistory == Init => HistoryInv
<1> SUFFICES ASSUME Init PROVE HistoryInv
  OBVIOUS
<1>1. IInv
  BY InitIInv
<1>2. PlansRecorded /\ ReuseGrounds /\ MirrorsWritten
  BY DEF Init, PlansRecorded, PlanRecorded, Loaded, ReuseGrounds, MirrorsWritten, Writers
<1>3. FilesNamed
  BY DEF Init, FilesNamed, IsFile, Files
<1>4. DetailsDone /\ DetailsRecorded
  BY DEF Init, DetailsDone, DetailsRecorded, Done, Made, Writers, Finishing, Named
<1>5. QED
  BY <1>1, <1>2, <1>3, <1>4 DEF HistoryInv

(* Every step keeps it. *)
LEMMA NextHistory == HistoryInv /\ [Next]_vars => HistoryInv'
<1> SUFFICES ASSUME HistoryInv, [Next]_vars PROVE HistoryInv'
  OBVIOUS
<1>1. IInv'
  BY NextIInv DEF HistoryInv
<1>2. PlansRecorded'
  BY <1>1, PlansRecordedKept DEF HistoryInv
<1>3. FilesNamed'
  BY <1>1, <1>2, FilesNamedKept DEF HistoryInv
<1>4. ReuseGrounds'
  BY <1>1, ReuseGroundsKept DEF HistoryInv
<1>5. DetailsDone' /\ DetailsRecorded' /\ MirrorsWritten'
  BY <1>1, DetailsKept DEF HistoryInv
<1>6. QED
  BY <1>1, <1>2, <1>3, <1>4, <1>5 DEF HistoryInv

(* Through any number of edits, blocked plans and claim-less captures, a    *)
(* finished run leaves no file of a product its input does not have, as    *)
(* long as no run dies and nobody touches the files.                       *)
THEOREM FinishedRunLeavesNothingStale == Spec => []NothingStale
<1>1. HistoryInv => NothingStale
  <2> SUFFICES ASSUME HistoryInv, pc = "published", crashes = 0, disturbances = 0,
                      NEW r \in Refs, NEW k \in {"kernel"} \cup DetailKinds, IsFile(<< r, k >>)
               PROVE  ProductsOf(input)[r] # Absent
    BY DEF NothingStale, Stale
  <2>1. QED
    BY DEF HistoryInv, FilesNamed, CurrentProduct
<1>2. QED
  BY <1>1, InitHistory, NextHistory, PTL DEF Spec

(* The assertion of runtime.py: an EconomicFacts kernel that is written    *)
(* was built by this run, whatever the plan, the mode and the files were.  *)
THEOREM WrittenKernelWasBuilt == Spec => []RebuiltKernelWasBuilt
<1>1. HistoryInv => RebuiltKernelWasBuilt
  BY DEF HistoryInv, ReuseGrounds, RebuiltKernelWasBuilt
<1>2. QED
  BY <1>1, InitHistory, NextHistory, PTL DEF Spec

(* One run in full-update or rebuild mode repairs the details and mirrors  *)
(* whatever crashes and damage came before it, and they stay those of the  *)
(* current input through automatic reruns until the next crash or damage.  *)
THEOREM FullRefreshHeals == Spec => []RefreshHeals
<1>1. HistoryInv => RefreshHeals
  <2> SUFFICES ASSUME HistoryInv, pc = "published", ~exposed
               PROVE  /\ MirrorsTrue
                      /\ \A k \in DetailKinds : \A r \in CurrentFamily(k) :
                           disk[<< r, k >>] = TruthRows(r, k)
    BY DEF RefreshHeals
  <2>1. Done = Refs /\ Healing
    BY DEF Done, Made, Writers, Finishing, Healing
  <2>2. \A k \in DetailKinds : FamilyOfKind(k) \in Stages /\ k \in KindsOf(FamilyOfKind(k))
    BY KindsOfFamilies DEF DetailKinds, FamilyOfKind, Stages
  <2>3. ASSUME NEW k \in DetailKinds, NEW r \in CurrentFamily(k)
        PROVE  disk[<< r, k >>] = TruthRows(r, k)
    <3>1. r \in Refs /\ FamilyOf(r) = FamilyOfKind(k) /\ CurrentProduct(r)
      BY <2>2, <2>3, KindsOfFamilies, Families DEF CurrentFamily, CurrentProduct
    <3>2. QED
      BY <2>1, <2>2, <3>1 DEF HistoryInv, DetailsDone, DetailRight
  <2>4. QED
    BY <2>1, <2>3 DEF HistoryInv, MirrorsWritten
<1>2. QED
  BY <1>1, InitHistory, NextHistory, PTL DEF Spec

-----------------------------------------------------------------------------
(* Reruns on unchanged claims. *)

(* A kernel on file that the plan vouches for is never written again. *)
LEMMA IntactKernelReused ==
  ASSUME HistoryInv, KernelsIntact, mode # "rebuild", NEW r \in Refs, RebuildKernel(r)
  PROVE  FALSE
<1>0. /\ pc = "kernel" /\ pc \in Writers /\ r \in todo /\ ~KernelReusable(r) /\ IInv
      /\ prior = summary /\ prior # NoPlan /\ prior.products = ProductsOf(input)
  BY DEF RebuildKernel, HistoryInv, KernelsIntact, Writers
<1>1. /\ stage \in Stages /\ r \in Family(stage) /\ Family(stage) \subseteq Refs /\ input \in Inputs
      /\ CurrentProduct(r) /\ products[r] = ProductsOf(input)[r] /\ products[r] # Absent
      /\ input.claims # NoClaims /\ products[r] \in MaybeKernels
      /\ \A q \in Family(stage) : products[q] = ProductsOf(input)[q]
  BY <1>0, WhileWriting DEF IInv, Progress, TypeOK
<1>2. \A q \in Family(stage) : CurrentProduct(q) => disk[KernelFile(q)] = products[q]
  BY <1>0, <1>1 DEF KernelsIntact, CurrentProduct
<1>3. IsFile(KernelFile(r)) /\ r \in PriorRefs(stage)
  BY <1>0, <1>1, <1>2, SentinelsDistinct DEF IsFile, MaybeKernels, PriorRefs, CurrentProduct
<1>4. \A q \in invalid : q \in Family(stage) /\ CurrentProduct(q) /\ q \notin todo
  BY <1>0, <1>2 DEF HistoryInv, ReuseGrounds
<1>5. stage = "EF" => PriorRefs("EF") = {r} /\ \A q \in EFRefs : CurrentProduct(q) => q = r
  <2> SUFFICES ASSUME stage = "EF"
               PROVE  PriorRefs("EF") = {r} /\ \A q \in EFRefs : CurrentProduct(q) => q = r
    OBVIOUS
  <2>1. PICK q \in EFRefs : \A p \in EFRefs : EconomicFactsOf(input)[p] # Absent <=> p = q
    BY <1>1, BuildersTyped
  <2>2. \A p \in EFRefs : ProductsOf(input)[p] = EconomicFactsOf(input)[p]
    BY <1>1 DEF ProductsOf, Refs
  <2>3. QED
    BY <1>0, <1>1, <2>1, <2>2, Families DEF PriorRefs, CurrentProduct
<1>6. ~KernelInvalid(r)
  <2>1. CASE stage = "EF"
    BY <1>0, <1>4, <1>5, <2>1, Families DEF KernelInvalid
  <2>2. CASE stage # "EF"
    <3>1. r \notin invalid /\ ~Mismatch(r, prior.products[r])
      BY <1>0, <1>1, <1>2, <1>4 DEF Mismatch
    <3>2. QED
      BY <2>2, <3>1 DEF KernelInvalid
  <2>3. QED
    BY <2>1, <2>2
<1>7. PriorFingerprint(r) = products[r]
  <2>1. \A S : S = {r} => S # {} /\ (CHOOSE q \in S : TRUE) = r
    OBVIOUS
  <2>2. (IF stage = "EF" THEN PriorRefs("EF") ELSE PriorRefs(stage) \cap {r}) = {r}
    BY <1>3, <1>5
  <2>3. PriorFingerprint(r) = prior.products[r]
    BY <1>6, <2>1, <2>2 DEF PriorFingerprint
  <2>4. QED
    BY <1>0, <1>1, <2>3
<1>8. QED
  BY <1>0, <1>3, <1>6, <1>7 DEF KernelReusable

(* Details on file that the plan vouches for are not written again.        *)
LEMMA IntactDetailReused ==
  ASSUME HistoryInv, KernelsIntact, mode = "auto", DetailsIntact, DecideRefresh
  PROVE  FALSE
<1>0. /\ pc = "detail" /\ pc \in Writers /\ ~DetailReusable(cur) /\ IInv
      /\ prior = summary /\ prior # NoPlan /\ prior.products = ProductsOf(input)
  BY DEF DecideRefresh, HistoryInv, KernelsIntact, Writers
<1>1. /\ stage \in Stages /\ cur \in Family(stage) /\ cur \in Refs /\ CurrentProduct(cur)
      /\ FamilyOf(cur) = stage /\ input \in Inputs
  BY <1>0, WhileWriting, KindsOfFamilies DEF Writers
<1>2. kernelAction[cur] = "reused"
  BY <1>0, <1>1 DEF HistoryInv, ReuseGrounds, DetailsIntact
<1>3. \A k \in KindsOf(stage) : k \in DetailKinds /\ cur \in CurrentFamily(k)
  BY <1>1, KindsOfFamilies DEF CurrentFamily, CurrentProduct, FamilyOfKind, Stages, DetailKinds
<1>4. \A k \in KindsOf(stage) : disk[<< cur, k >>] \notin {Missing, Unreadable}
  BY <1>3 DEF DetailsIntact
<1>5. PriorSignature(cur) = Signature(cur)
  <2>1. cur \in PriorRefs(stage)
    BY <1>0, <1>1 DEF PriorRefs, CurrentProduct
  <2>2. \A k \in KindsOf(stage) : Signature(cur)[k] = TruthRows(cur, k)
    BY <1>0, <1>1, ProjectIsTruth DEF Signature
  <2>3. PICK i \in Inputs : summary = PlanFor(i)
    BY <1>0 DEF HistoryInv, PlansRecorded, PlanRecorded
  <2>4. prior.signatures[cur] = [k \in KindsOf(stage) |-> Project(ProductsOf(i), i, cur, k)]
    BY <1>0, <1>1, <2>1, <2>3, PlanForParts DEF PriorRefs, CurrentProduct
  <2>5. \A k \in KindsOf(stage) : prior.signatures[cur][k] = TruthRows(cur, k)
    BY <1>0, <1>3 DEF DetailsIntact
  <2>6. prior.signatures[cur] = Signature(cur)
    BY <2>2, <2>4, <2>5 DEF Signature
  <2>7. QED
    BY <2>1, <2>6 DEF PriorSignature
<1>6. QED
  BY <1>0, <1>2, <1>4, <1>5 DEF DetailReusable

(* On unchanged claims and intact files, a rerun writes no kernel and an   *)
(* automatic one no detail, at any stage of the chain.                     *)
THEOREM RerunWritesNothing == Spec => UnchangedIsReused
<1>1. HistoryInv /\ [Next]_vars =>
        [KernelsIntact => /\ mode # "rebuild" => ~\E r \in Refs : RebuildKernel(r)
                          /\ mode = "auto" /\ DetailsIntact => ~DecideRefresh]_vars
  BY IntactKernelReused, IntactDetailReused
<1>2. QED
  BY <1>1, InitHistory, NextHistory, PTL DEF Spec, UnchangedIsReused
=============================================================================
