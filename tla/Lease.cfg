SPECIFICATION FairSpec
CONSTANTS
  p1 = p1
  p2 = p2
  q1 = q1
  None = None
  here = here
  there = there
  Procs <- MCProcs
  Nodes <- MCNodes
  NodeOf <- MCNodeOf
  Offset <- MCOffset
  Stale = 3
  MaxBeat = 2
  MaxAge = 5
  MaxLate = 2
  MaxFaults = 3
INVARIANTS TypeOK OneLease TimelyExclusion TimelySocket
PROPERTIES OnlyOwnerReleases LoserStops EventuallyOwned
