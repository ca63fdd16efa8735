CONSTANTS
  Worker = w
  Request = {q1}
  Key = {k1, k2}
  NoItem = NoItem
  NoKey = NoKey
  NoProc = NoProc
  Initial = 1
  Modes = {"news", "analysis"}
  MaxSymbol = 2
  MaxItem = 3
  MaxEdits = 2
  MaxFaults = 1
SPECIFICATION FairSpec
INVARIANTS TypeOK OnlyFirstFlushRejected
PROPERTIES OnlyOverlapsRepeat EventuallyAnalysed LockIsReleased
