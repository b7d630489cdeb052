SPECIFICATION Spec
CONSTANTS
  Characters <- Letters
  Texts <- ShortTexts
  Separators <- ShortSeparators
  White <- Blank
  Rows <- ShortRows
  Bounds <- NearBounds
  Steps <- NearSteps
  LongMax = 63
  Constructs = {}
INVARIANTS PiecesAreRight SliceIsRight StaysInside
CHECK_DEADLOCK FALSE
