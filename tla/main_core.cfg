CONSTANTS
  Formats <- SomeFormats
  Numbers <- SomeNumbers
  MAX_INSTANCE_MUN = 3
  Faults <- AllFaults

SPECIFICATION FairSpec

INVARIANTS
  TypeOK
  BypassedWhilePlaying
  NoPlayerOutlivesMain

PROPERTY EndsWithItsPlayers
