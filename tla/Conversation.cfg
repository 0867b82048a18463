SPECIFICATION Spec
CONSTANTS
  Requests = {r1, r2}
  Peer = peer
  None = none
  MaxChat = 4
  MaxFails = 1
INVARIANTS TypeOK NothingBetween AnswerIsNext NothingMissed
 
