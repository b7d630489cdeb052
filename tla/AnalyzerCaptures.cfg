SPECIFICATION Spec
CONSTANTS
  Names = {"x"}
  Ints = {i1}
  Strings = {s1}
  Constructs <- AllButFalseWhile
  MaxSize = 4
  MaxNesting = 4
INVARIANTS TypeOK CapturesWhatIsUsed
