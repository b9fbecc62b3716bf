SPECIFICATION Spec
CONSTANTS
  A = A  B = B
  None = None
  Sources = {A}
  Faults = {"crash"}
  MaxEdits = 2
PROPERTIES
  RecoveryKept
