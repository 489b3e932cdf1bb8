SPECIFICATION Spec
CONSTANTS
    Exports <- MCExports
    Documents <- MCDocuments
    MaxFiles = 3
    Horizon = 4
INVARIANTS
    NoActivityCountedTwice
    NoActivityLost
    PublishedPlanIsExecuted
    NewestStatementDecides
