SPECIFICATION Spec
CONSTANTS
  Commands = {c1}
  Listener = listener
  Sessions = {s1, s2}
  Accounts = {a1, a2}
  Chats = {x}
  None = none
  MaxSent = 1
  MaxChanges = 1
INVARIANT FiledUnderOwn
