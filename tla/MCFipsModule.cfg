SPECIFICATION Spec
CONSTANTS
  Kem = {"ML-KEM-768"}
  Dsa = {"ML-DSA-65"}
  ReseedInterval = 2
  EntropyBytes = 3
  NonceBytes = 2
  MaxRestarts = 1
INVARIANTS
  ModuleInv
  OnlyTestedPairsLeave
PROPERTIES
  UsesDrbgAsPromised
  ImplementsService
  CallsReturn
