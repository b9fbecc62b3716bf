\* Two windows and other programs on one project file, with crashes.
SPECIFICATION Spec
CONSTANTS
  Editors = {e1, e2}
  None = None
  Guarded = TRUE
  MaxClock = 4
INVARIANTS
  TypeOK
  CleanMeansSaved
  OwnSavesAccepted
SYMMETRY Alike
