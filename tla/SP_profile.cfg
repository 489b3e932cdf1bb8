CONSTANTS
  Exports <- MCExports
  Labels <- MCLabels
  LabelNames <- MCLabelNames
  MaxFiles = 3
  MaxCommands = 2
SPECIFICATION Spec
INVARIANTS
    ClocksAreRead
    BookedWhenWritten
CHECK_DEADLOCK FALSE
