SPECIFICATION Spec
CONSTANTS
  ReseedInterval = 2
  MaxBytesPerRequest = 5
  OutLen = 2
  MinEntropy = 2
  MinNonce = 1
  a = a
  b = b
  Inputs = {a, b}
  Empty = empty
  Null = null
  MaxQueries = 16
SYMMETRY Interchangeable
INVARIANTS
  DrbgInv
  NoBlockRepeats
  PastUnreachable
PROPERTIES
  KeepsContract
