SPECIFICATION Spec
CONSTANTS
  old = old
  new = new
  newer = newer
  Programs = {old, new, newer}
  Needs <- MCNeeds
  Parts = 2
  None = none
  MaxFaults = 2
INVARIANTS TypeOK Whole
PROPERTIES ImplementsSchema OpeningEnds
