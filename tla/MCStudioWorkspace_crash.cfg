SPECIFICATION Spec
CONSTANTS
  A = A  B = B
  None = None
  Sources = {A, B}
  Faults = {"crash", "task", "autosave", "state"}
  MaxEdits = 2
INVARIANTS
  TypeOK
  PromiseKept
