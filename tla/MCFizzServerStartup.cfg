\* Every option combination through every start-up path.
CONSTANTS
  KemIds <- MCKemIds
  KeyTypes <- MCKeyTypes
  CompAlgos <- MCCompAlgos
  BuiltCompressors <- MCBuiltCompressors
  AlgoLists <- MCAlgoLists
  DefaultECHKem = "x25519"
SPECIFICATION Spec
INVARIANT RunningConfigSound
INVARIANT KexMatchesKem
INVARIANT SignerMatchesKeyType
INVARIANT CompressorsMatchAdvertised
\* Start-up ends: the process exits, or hands over to the event loop
\* (modelled by FizzServer).
CHECK_DEADLOCK FALSE
