------------------------- MODULE MCTargetProducts -------------------------
(* Small instances of TargetProducts: two evidence sets, two claim bodies  *)
(* for the first, a detail-only variant of each kind, a claim-less capture *)
(* and a blocked one.                                                      *)
EXTENDS TargetProducts

CONSTANTS
  e1, e2,                          \* evidence sets
  b1, b2,                          \* claim-set contents
  f1, f2, s1, s2, s3, c1, c2,      \* product refs
  n1, n2,                          \* observation details of an evidence set
  d1, d2                           \* draft projection fields

MCEvidenceIds == {e1, e2}
MCEFRefs == {f1, f2}
MCRSRefs == {s1, s2, s3}
MCCPRefs == {c1, c2}
MCKernels == {f1, f2, s1, s2, s3, c1, c2} \X {b1, b2}
MCDetailRows ==
  ({"facts", "annotations"} \X (MCEFRefs \X {b1, b2}) \X {d1, d2})
  \cup ({"snapshots"} \X (MCRSRefs \X {b1, b2}))
  \cup ({"references"} \X (MCCPRefs \X {b1, b2}) \X {n1, n2})

Input(e, n, c, d) == [outcome |-> "translates", evidence |-> e, details |-> n,
                      claims |-> c, drafts |-> d]
First == Input(e1, n1, << e1, b1 >>, d1)
EditedClaims == Input(e1, n1, << e1, b2 >>, d1)   \* same refs, other contents
EditedDetails == Input(e1, n2, << e1, b1 >>, d2)  \* same kernels, other facts and references
EditedBoth == Input(e1, n1, << e1, b2 >>, d2)
OtherEvidence == Input(e2, n1, << e2, b1 >>, d1)  \* other refs, no checkpoint
NoProductsInput == Input(NoEvidence, n1, NoClaims, d1)
BlockedInput == [outcome |-> "blocked", evidence |-> e1, details |-> n2,
                 claims |-> NoClaims, drafts |-> d1]
RefusedInput == [outcome |-> "refused", evidence |-> NoEvidence, details |-> n1,
                 claims |-> NoClaims, drafts |-> d1]

MCBuildEconomicFacts(c) ==
  [r \in MCEFRefs |-> IF r = (IF c[1] = e1 THEN f1 ELSE f2) THEN << r, c[2] >> ELSE Absent]

MCBuildReconciliationStates(ef, c, e) ==
  LET segments == IF ef[f2] # Absent THEN {s3} ELSE IF ef[f1][2] = b1 THEN {s1, s2} ELSE {s1}
  IN  [r \in MCRSRefs |-> IF r \in segments THEN << r, c[2] >> ELSE Absent]

(* A checkpoint's id comes from the states it is derived from. *)
MCBuildCheckpoints(rs) ==
  [r \in MCCPRefs |->
     IF rs[s1] # Absent /\ r = (IF rs[s2] # Absent THEN c1 ELSE c2)
     THEN << r, rs[s1][2] >> ELSE Absent]

MCProjectEconomicFacts(k, kernel, i) == << k, kernel, i.drafts >>
MCProjectSnapshots(kernel) == << "snapshots", kernel >>
MCProjectReferences(kernel, rs, i) == << "references", kernel, i.details >>

RerunInputs == {First, EditedClaims, EditedDetails, OtherEvidence, NoProductsInput, BlockedInput}
TwoCrashInputs == {First, EditedBoth, RefusedInput}
=============================================================================
