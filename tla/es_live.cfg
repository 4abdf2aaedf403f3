CONSTANTS
  MaxFrames = 2
  QueueCount = 1
  MaxPics = 2
  MaxChanges = 2
  KernelUvm = TRUE
  AwaitsReturn = FALSE
  WithOutput = TRUE
  Faults <- MildFaults

SPECIFICATION FairSpec

INVARIANT TypeOK

PROPERTIES
  FramesInOrder
  Termination
  DeliveredIsDumped
