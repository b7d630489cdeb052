SPECIFICATION Spec
CONSTANTS
  Names = {"x", "y"}
  Ints = {i1, i2}
  Strings = {s1}
  Constructs <- NoConstructs
  MaxSize = 4
  MaxNesting = 3
SYMMETRY IntSymmetry
INVARIANTS KnownValuesAreRight DroppedIsUnreachable PureIsEffectless ReturnTypeIsRight
