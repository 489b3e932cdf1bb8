SPECIFICATION Spec
CONSTANTS
  Inputs <- RerunInputs
  EvidenceIds <- MCEvidenceIds
  EFRefs <- MCEFRefs
  RSRefs <- MCRSRefs
  CPRefs <- MCCPRefs
  Kernels <- MCKernels
  DetailRows <- MCDetailRows
  BuildEconomicFacts <- MCBuildEconomicFacts
  BuildReconciliationStates <- MCBuildReconciliationStates
  BuildCheckpoints <- MCBuildCheckpoints
  ProjectEconomicFacts <- MCProjectEconomicFacts
  ProjectSnapshots <- MCProjectSnapshots
  ProjectReferences <- MCProjectReferences
  NoEvidence = NoEvidence
  NoClaims = NoClaims
  Absent = Absent
  Missing = Missing
  Unreadable = Unreadable
  Partial = Partial
  NoPlan = NoPlan
  e1 = e1  e2 = e2  b1 = b1  b2 = b2
  f1 = f1  f2 = f2  s1 = s1  s2 = s2  s3 = s3  c1 = c1  c2 = c2
  n1 = n1  n2 = n2  d1 = d1  d2 = d2
  MaxCrashes = 0
  MaxDisturbances = 1
INVARIANTS RebuiltKernelWasBuilt NothingStale
PROPERTIES UnchangedIsReused
