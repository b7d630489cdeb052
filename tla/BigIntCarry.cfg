SPECIFICATION Spec
CONSTANTS
  Bits = 4
  Operands <- Boundaries
  Bound = 10
  Lossy = TRUE
INVARIANT MeaningIsKept
