SPECIFICATION Spec
CONSTANTS
  A = A
  B = B
  UNKNOWN_ID = UNKNOWN_ID
  Features <- MCFeatures
  NumFeatures = 3
  MaxChunk = 3
  GeometriesLimit = 6667
  HolesLimit = 3333
  TiesUp = {}
SYMMETRY IdSymmetry
CHECK_DEADLOCK FALSE
INVARIANTS TypeOK CountsExact VerdictExact RowsFaithful
PROPERTIES CriticalSticks
