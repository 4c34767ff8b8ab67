SPECIFICATION Spec
CONSTANTS
  w1 = w1
  w2 = w2
  NoShp = NoShp
  Workers = {w1, w2}
  NumChunks = 2
  MinorLimit = 1
  MaxAttempts = 2
  MaxFaults = 1
  MaxCrashes = 1
  MaxTimeouts = 1
SYMMETRY WorkerSymmetry
CHECK_DEADLOCK FALSE
INVARIANTS CheckpointCovered RowsBounded
