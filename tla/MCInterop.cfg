\* A KEM peer that accepts anything, a signature peer of five kinds, one late answer, one line of noise or `null'.
SPECIFICATION InteropSpec
CONSTANTS
  kemPeer = kemPeer
  sigPeer = sigPeer
  Peers <- MCPeers
  Rows <- MCRows
  Behaviours <- MCBehaviours
  Deterministic = {kemPeer, sigPeer}
  NL = NL
  Noise = Noise
  JsonNull = JsonNull
  None = None
  MaxNoise = 1
  MaxLate = 1
INVARIANTS
  MatrixInv
  RowsTellThePeer
PROPERTY RunEnds
\* stop() waits for ever for a peer that hangs.
CHECK_DEADLOCK FALSE
