\* Key log and a handshake that fails after the handshake secrets.
CONSTANTS
  p1 = p1
  p2 = p2
  chts = chts
  sts = sts
  rms = rms
  NoPeer = NoPeer
  Peers <- MCPeers
  LogLabels <- MCLogLabels
  OtherLabels <- MCOtherLabels
  MaxChunk = 3
  MaxReqBytes = 7
  Loop = TRUE
  Http = FALSE
  FallbackEnabled = FALSE
  KeyLogEnabled = TRUE
SPECIFICATION Spec
SYMMETRY PeerSymmetry
INVARIANT KeyLogCompleteAtClose
