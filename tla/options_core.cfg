CONSTANTS
  Options <- AllOptions
  MaxOptions = 4

SPECIFICATION Spec

INVARIANTS
  SourceMatchesType
  SessionAsAsked
