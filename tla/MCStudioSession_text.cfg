\* No failures: a text edit below a Revert All.
SPECIFICATION Spec
CONSTANTS
  v1 = v1  v2 = v2  c1 = c1  s1 = s1  a1 = a1  a2 = a2
  k1 = k1  v = v  w = w  t1 = t1  q1 = q1
  None = None
  Assets = {v1}
  SourceOf <- MCSourceOf
  Texts = {t1}
  Cues = {}
  Values = {v}
  Colours = {}
  Faults = {}
  Archives = {}
  MaxSnapshots = 2
  MaxUndo = 3
INVARIANTS
  UndoReady
