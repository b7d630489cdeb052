SPECIFICATION Spec
CONSTANTS
  Worlds <- Starts
  Missing = "missing"
  SizeMax = 31
  Constructs = {}
INVARIANTS EveryCharacterOnce TokensAreRight OptionsAreRight EveryFileHasItsFate
PROPERTY ProgramEnds
CHECK_DEADLOCK FALSE
