SPECIFICATION Spec
CONSTANTS
  Names = {"input"}
  RootNames = {"input"}
  Sites = {s1, s2}
  Capacity = 4
  TraceLimit = 3
  MaxDepth = 6
INVARIANTS TypeOK NoCppException JumpsHaveTarget CallStackMatchesCalls ScopePerBlock TraceExtendsCalls
PROPERTIES AbruptOnlyUnwinds KeepsPromise JumpsLand
