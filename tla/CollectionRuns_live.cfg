CONSTANTS
  Worker = w
  Request = {q1}
  Unified = {r1, r2}
  Standalone = {s1}
  NoRun = NoRun
  NoProc = NoProc
  Plans <- SmallPlans
  WorkerPlan <- SmallPlan
  StaleAfter = 2
  RunLimit = 2
  MaxFaults = 2
SPECIFICATION FairSpec
PROPERTIES ImplementsSlot SlotFreed CollectionGoesOn
