\* Every editor, every kind of failure: the history directory against the records.
SPECIFICATION Spec
CONSTANTS
  v1 = v1  v2 = v2  c1 = c1  s1 = s1  a1 = a1  a2 = a2
  k1 = k1  v = v  w = w  t1 = t1  q1 = q1
  None = None
  Assets = {v1, a1, s1}
  SourceOf <- MCSourceOf
  Texts = {t1}
  Cues = {q1}
  Values = {v}
  Colours = {k1}
  Faults = {"snapshot", "stage", "unlink", "preview", "validate", "manifest", "purge", "rollback"}
  Archives <- MCArchives
  MaxSnapshots = 3
  MaxUndo = 2
INVARIANTS
  TypeOK
  SnapshotsKept
  SnapshotsUnshared
