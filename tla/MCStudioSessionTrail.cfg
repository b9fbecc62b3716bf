\* Undo against the abstract undoable project, and files, ledgers and edits kept
\* together: batches, two payloads, a cue label.
SPECIFICATION TrailSpec
CONSTANTS
  v1 = v1  v2 = v2  c1 = c1  s1 = s1  a1 = a1  a2 = a2
  k1 = k1  v = v  w = w  t1 = t1  q1 = q1
  None = None
  Assets = {v1, v2, a1}
  SourceOf <- MCSourceOf
  Texts = {}
  Cues = {q1}
  Values = {v, w}
  Colours = {}
  Faults = {"snapshot", "manifest"}
  Archives <- MCArchives
  MaxSnapshots = 4
  MaxUndo = 3
INVARIANTS
  FilesBackEdits
  FileLedgersAgree
  UndoReady
PROPERTIES
  NothingUnrecorded
  UndoIsExact
