CONSTANTS
  MaxFrames = 3
  QueueCount = 1
  MaxPics = 2
  MaxChanges = 2
  KernelUvm = TRUE
  AwaitsReturn = FALSE
  WithOutput = TRUE
  Faults <- AllFaults

SPECIFICATION Spec

INVARIANTS
  HeapSafe
  LeakIsCompletedInputs
  OutputThreadJoined
  NoFrameAbandoned
  StaleWorkOnlyByOvertaking
  NoSilentDump
  StrideMatchesFrame
  PicturesConserved

PROPERTY LivesAsPlayer
