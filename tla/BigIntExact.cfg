SPECIFICATION Spec
CONSTANTS
  Bits = 4
  Operands <- Boundaries
  Bound = 10
  Lossy = FALSE
INVARIANTS MeaningIsKept ComparesRight ClampsRight ReadsBackWhatIsPrinted
