CONSTANTS
  Worker = w
  Request = {q1, q2}
  Unified = {r1, r2}
  Standalone = {s1}
  NoRun = NoRun
  NoProc = NoProc
  Plans <- MCPlans
  WorkerPlan <- MCWorkerPlan
  StaleAfter = 2
  RunLimit = 3
  MaxFaults = 1
SPECIFICATION Spec
SYMMETRY Symmetry
INVARIANTS TypeOK OneLiveCollection SuccessIsComplete
PROPERTIES FinalStatusStable OnlyOwnerSettles
