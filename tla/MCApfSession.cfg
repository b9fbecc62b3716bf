\* Two-step imports, shared payload files, undo and the last build.
SPECIFICATION Spec
CONSTANTS
  r1 = r1  t1 = t1  s1 = s1  s2 = s2  v = v  w = w
  None = None
  Assets = {r1, t1, s1, s2}
  KindOf <- MCKindOf
  Owners <- MCOwners
  Cues = {s1}
  Values = {v}
  Archives <- MCArchives
  MaxUndo = 2
INVARIANTS
  TypeOK
  PayloadsKept
  LaunchesCurrent
PROPERTIES
  ConfirmedIsShown
  UndoIsExact
