SPECIFICATION Spec
CONSTANTS
  Getters = {g1, g2}
  Limits = {1, 2}
  MaxMessageId = 2
SYMMETRY Symmetry
INVARIANTS RangesDisjoint HeadCovered
