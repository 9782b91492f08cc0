SPECIFICATION Spec
CONSTANTS
  None = None
  Ids = {1, 2}
  Texts = {x, y}
  Sessions = {s1, s2}
  LastSecond = 1
SYMMETRY Symmetry
PROPERTY EditsSaved
