SPECIFICATION Spec
CONSTANTS
  A = A  B = B
  None = None
  Sources = {A}
  Faults = {}
  MaxEdits = 2
INVARIANTS
  ClosedKnowingly
