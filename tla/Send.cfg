SPECIFICATION Spec
CONSTANTS
  Requests = {r1, r2}
  Peer = peer
  MaxChat = 2
INVARIANT TypeOK
PROPERTIES ImplementsSendOnce RequestsEnd
CHECK_DEADLOCK FALSE
