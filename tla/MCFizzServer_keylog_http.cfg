\* HTTP responder with a key log: one session, two writes per label.
CONSTANTS
  p1 = p1
  p2 = p2
  chts = chts
  sts = sts
  rms = rms
  NoPeer = NoPeer
  Peers <- MCPeers
  LogLabels <- MCLogLabels
  OtherLabels <- MCOtherLabels
  MaxChunk = 3
  MaxReqBytes = 7
  Loop = TRUE
  Http = TRUE
  FallbackEnabled = FALSE
  KeyLogEnabled = TRUE
SPECIFICATION Spec
SYMMETRY PeerSymmetry
INVARIANT KeyLogAtMostOnce
