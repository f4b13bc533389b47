\* Loop mode, HTTP responder: while sessions keep ending, queued peers are
\* eventually served.
CONSTANTS
  p1 = p1
  p2 = p2
  chts = chts
  sts = sts
  rms = rms
  NoPeer = NoPeer
  Peers <- MCPeers
  LogLabels <- MCLogLabels
  OtherLabels <- MCOtherLabels
  MaxChunk = 3
  MaxReqBytes = 7
  Loop = TRUE
  Http = TRUE
  FallbackEnabled = TRUE
  KeyLogEnabled = FALSE
SPECIFICATION FairSpec
PROPERTY QueuedEventuallyServed
