\* Two editors, one source cache and one output name, with crashes and
\* other programs; inode numbers are not given out again.
SPECIFICATION Spec
CONSTANTS
  Editors = {e1, e2}
  Assets = {a1, a2}
  Inodes = {i1, i2, i3}
  None = None
  Reuse = FALSE
  MaxEdits = 1
INVARIANTS
  TypeOK
  ImageOfOneMoment
  FailedLeavesNothing
PROPERTIES
  DestinationRespected
SYMMETRY Alike
