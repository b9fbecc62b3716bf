\* As MCBuildPipeline.cfg, but inode numbers are given out again.
SPECIFICATION Spec
CONSTANTS
  Editors = {e1, e2}
  Assets = {a1, a2}
  Inodes = {i1, i2, i3}
  None = None
  Reuse = TRUE
  MaxEdits = 1
PROPERTIES
  DestinationRespected
SYMMETRY Alike
