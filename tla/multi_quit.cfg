CONSTANTS
  changNum = 2
  MaxNumber = 1
  MaxKeys = 0
  MaxChunks = 1
  VideoKeys <- NoVideoKeys
  Faults <- NoFaults

SPECIFICATION Spec

INVARIANT QuitIsHeard
