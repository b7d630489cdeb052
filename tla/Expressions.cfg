SPECIFICATION Spec
CONSTANTS
  Operands <- SomeOperands
  Postfixes <- SomePostfixes
  Constructs = {}
INVARIANTS TypeOK ResultIsRight PureNeitherActsNorFails RewritingIsRight RejectedFails
CHECK_DEADLOCK FALSE
