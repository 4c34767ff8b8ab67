SPECIFICATION Spec
CONSTANTS
  w1 = w1
  w2 = w2
  NoShp = NoShp
  Workers = {w1}
  NumChunks = 3
  MinorLimit = 1
  MaxAttempts = 3
  MaxFaults = 2
  MaxCrashes = 1
  MaxTimeouts = 0
SYMMETRY WorkerSymmetry
CHECK_DEADLOCK FALSE
INVARIANTS TypeOK NoFalseAlarm CheckpointCovered ReportComplete SummaryShown RowsBounded ReportDownloadable FirstAttemptExact
PROPERTIES CheckpointMonotone
