SPECIFICATION Spec
CONSTANTS
  Sources = {s1}
  Day = 2
  Datasets <- MCDatasets
  Packages <- MCPackages
  AsOfs <- MCAsOfs
  ProviderAnswers <- MCProviderAnswers
  MayAnswer <- MCMayAnswer
  NoFile = NoFile
  NoAsOf = NoAsOf
  MaxChanges = 2
  MaxChecks = 2
  MaxCrashes = 1
INVARIANTS RecheckAgrees CleanMeansAgreed ReadyMeansResolved OutputsOfOneCheck PortfolioOfThisCheck
