SPECIFICATION Spec
CONSTANTS
  w1 = w1
  w2 = w2
  NoShp = NoShp
  Workers = {w1}
  NumChunks = 2
  MinorLimit = 0
  MaxAttempts = 3
  MaxFaults = 1
  MaxCrashes = 0
  MaxTimeouts = 0
SYMMETRY WorkerSymmetry
CHECK_DEADLOCK FALSE
INVARIANTS FirstChunkStartsReport
