SPECIFICATION Spec
CONSTANTS
  Names = {"input"}
  RootNames = {"input"}
  Sites = {s1}
  Capacity = 1
  TraceLimit = 1
  MaxDepth = 4
PROPERTY RedeclarationIsLocal
