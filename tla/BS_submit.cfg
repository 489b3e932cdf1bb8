\* Packages of one source, right and wrong, against submitted and assembled
\* datasets of two others.
SPECIFICATION Spec
CONSTANTS
    Sources <- MCSources
    Rank <- MCRank
    Submissions <- MCSubmissions
    Assemblies <- MCAssemblies
    MaxCommands = 3
    Decimals <- MCDecimals
    Times <- MCTimes
    Part <- MCPart
    Symbol <- MCSymbol
    Lower <- MCLower
INVARIANTS
    SubmissionHolds
    ConflictsReported
    CorroborationComplete
    LocationsAreSound
CHECK_DEADLOCK FALSE
