\* Single-shot mode, HTTP responder, fallback enabled.
CONSTANTS
  p1 = p1
  p2 = p2
  chts = chts
  sts = sts
  rms = rms
  NoPeer = NoPeer
  Peers <- MCPeers
  LogLabels <- MCLogLabels
  OtherLabels <- MCOtherLabels
  MaxChunk = 3
  MaxReqBytes = 7
  Loop = FALSE
  Http = TRUE
  FallbackEnabled = TRUE
  KeyLogEnabled = TRUE
SPECIFICATION Spec
SYMMETRY PeerSymmetry
INVARIANT SingleConnection
INVARIANT HttpRespondsOnce
\* Single-shot mode: the process exits once the listening socket is gone.
CHECK_DEADLOCK FALSE
PROPERTY ServiceSpec
