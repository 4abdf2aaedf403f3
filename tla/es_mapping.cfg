CONSTANTS
  MaxFrames = 2
  QueueCount = 2
  MaxPics = 2
  MaxChanges = 2
  KernelUvm = TRUE
  AwaitsReturn = TRUE
  WithOutput = FALSE
  Faults <- NoFaults

SPECIFICATION Spec

INVARIANT MappingIsCurrent
