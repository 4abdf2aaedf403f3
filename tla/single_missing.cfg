CONSTANTS
  Demods <- FileOnly
  Sizes <- Missing
  Keys <- NoKeys
  MaxKeys = 0
  MaxSignals = 0
  HandlerThreads <- MainOnly
  Faults <- NoFaults

SPECIFICATION Spec

INVARIANTS
  NothingWithoutData
