SPECIFICATION FairSpec
CONSTANTS
  A = A  B = B
  None = None
  Sources = {A}
  Faults = {"crash", "task"}
  MaxEdits = 2
INVARIANTS
  NothingStale
PROPERTIES
  AutosaveCatchesUp
