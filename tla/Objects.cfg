SPECIFICATION Spec
CONSTANTS
  Names = {x, y}
  CycleName = i
  Fields <- TwoFields
  Indices = {1, 3}
  Places = {1, 2, 3}
  MaxLiteral = 2
  MaxLength = 4
  MaxSteps = 4
SYMMETRY NameSymmetry
INVARIANTS TypeOK SumKeepsEverything PrintShowsEveryPath CycleVisitsWhatWasThere
CHECK_DEADLOCK FALSE
