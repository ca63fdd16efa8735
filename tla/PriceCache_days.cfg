CONSTANTS
  Worker = worker
  Request = {r1}
  Symbol = {s1, s2}
  NoProc = NoProc
  MaxDay = 2
  MaxFaults = 1
SPECIFICATION FairSpec
INVARIANTS
  PriceInv
  LostRefreshLosesNothing
PROPERTIES
  EveryCloseArrives
