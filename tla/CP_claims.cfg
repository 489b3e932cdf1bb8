SPECIFICATION Spec
CONSTANTS
    Rows <- MCRows
    Members = {1, 2, 3}
    FileName <- MCFileName
    Preamble <- MCPreamble
    Nested = {3}
    Balances <- MCBalances
    Windows <- MCWindows
    MaxRows = 3
    MaxBalances = 2
INVARIANTS
    RowsAccountedOnce
    ProjectionsAgree
    PublishedConserves
    CheckpointIsSum
