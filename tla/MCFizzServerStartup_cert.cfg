\* A certificate, key or credential that is read but does not parse.
CONSTANTS
  KemIds <- MCKemIds
  KeyTypes <- MCKeyTypes
  CompAlgos <- MCCompAlgos
  BuiltCompressors <- MCBuiltCompressors
  AlgoLists <- MCAlgoLists
  DefaultECHKem = "x25519"
SPECIFICATION Spec
\* Start-up ends: the process exits, or hands over to the event loop
\* (modelled by FizzServer).
CHECK_DEADLOCK FALSE
PROPERTY CertFailuresExitCleanly
