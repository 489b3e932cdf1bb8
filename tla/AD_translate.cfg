SPECIFICATION Spec
CONSTANTS
    Captures <- MCCaptures
    RowsOf <- MCRowsOf
    MaxRows <- MCMaxRows
    Offset <- MCOffset
    Cutoff <- MCCutoff
INVARIANTS
    BinanceSettled
    RepeatedExportCountsOnce
    SummaryClockProved
    ContractCallsNotBooked
CHECK_DEADLOCK FALSE
