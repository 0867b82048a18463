SPECIFICATION Spec
CONSTANTS
  m1 = m1
  m2 = m2
  other = other
  Messages <- MCMessages
  Wanted <- MCWanted
  Limits = {1, 2}
  Afters = {0, 1}
  KillAt <- AnyStepButPrint
  MaxEvents = 4
INVARIANTS TypeOK PollComplete AnswerComplete NothingSkipped
