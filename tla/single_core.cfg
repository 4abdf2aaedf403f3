CONSTANTS
  Demods <- FileOrDemod
  Sizes <- AllSizes
  Keys <- SomeKeys
  MaxKeys = 2
  MaxSignals = 1
  HandlerThreads <- AnyThread
  Faults <- WriteErrors

SPECIFICATION FairSpec

INVARIANTS
  TypeOK
  OsdRestored
  MainCallsLive
  SessionOutlivesOnlyIfEarly
  PlayedWhole
  TwiceOnlyAtTheEnd

PROPERTIES
  SessionLives
  QuitEnds
  InterruptEnds
  PlaysOut
