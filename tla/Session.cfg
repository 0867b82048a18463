SPECIFICATION Spec
CONSTANTS
  Commands = {c1}
  Listener = listener
  Sessions = {s1}
  Accounts = {a1, a2}
  Chats = {x}
  None = none
  MaxSent = 2
  MaxChanges = 1
INVARIANTS TypeOK NothingPassed
PROPERTY EntitiesKept
SYMMETRY Symmetry
