\* Loop mode, example server, fallback and key log enabled.
CONSTANTS
  p1 = p1
  p2 = p2
  chts = chts
  sts = sts
  rms = rms
  NoPeer = NoPeer
  Peers <- MCPeers
  LogLabels <- MCLogLabels
  OtherLabels <- MCOtherLabels
  MaxChunk = 3
  MaxReqBytes = 7
  Loop = TRUE
  Http = FALSE
  FallbackEnabled = TRUE
  KeyLogEnabled = TRUE
SPECIFICATION Spec
SYMMETRY PeerSymmetry
INVARIANT TransportExclusive
INVARIANT HandlerNeverOrphaned
INVARIANT KeyLogAtMostOnce
PROPERTY ServiceSpec
