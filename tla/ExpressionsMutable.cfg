SPECIFICATION Spec
CONSTANTS
  Operands <- SomeOperands
  Postfixes <- SomePostfixes
  Constructs = {}
INVARIANT KnownIsImmutable
CHECK_DEADLOCK FALSE
