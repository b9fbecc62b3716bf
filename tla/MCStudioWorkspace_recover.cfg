SPECIFICATION Spec
CONSTANTS
  A = A  B = B
  None = None
  Sources = {A, B}
  Faults = {"crash"}
  MaxEdits = 2
INVARIANTS
  RecoveredUnderItsSource
