CONSTANTS
  changNum = 2
  MaxNumber = 3
  MaxKeys = 3
  MaxChunks = 1
  VideoKeys <- AllVideoKeys
  Faults <- AllFaults

SPECIFICATION FairSpec

INVARIANTS
  TypeOK
  AtMostOneUnmuted
  SessionsReleasedAtExit

PROPERTIES
  SessionsLive
  EndsWithTheSessions
  QuitEnds
