SPECIFICATION Spec
CONSTANTS
  Sources = {s1, s2}
  Day = 2
  Datasets <- MCFewDatasets
  Packages <- MCPackages
  AsOfs <- MCAsOfs
  ProviderAnswers <- MCProviderAnswers
  MayAnswer <- MCMayAnswer
  NoFile = NoFile
  NoAsOf = NoAsOf
  MaxChanges = 2
  MaxChecks = 1
  MaxCrashes = 0
INVARIANTS PortfolioCleanSound
