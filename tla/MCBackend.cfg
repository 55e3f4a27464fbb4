SPECIFICATION Spec
CONSTANTS
  ALGORITHMS <- MCAlgorithms
  Jwk <- MCJwk
  Kem = {"ML-KEM-1024"}
  Prober = "ML-DSA-44"
  Wrapped = {"ML-DSA-87", "SLH-DSA-SHA2-192s", "ML-KEM-1024"}
  Runtimes <- MCRuntimes
  Contexts = {"invoice", "login"}
  Demands <- MCDemands
  None = None
INVARIANTS
  BackendInv
  SignaturesInterop
  RequirementHolds
