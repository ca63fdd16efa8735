CONSTANTS
  a = a
  b = b
  Worker = w
  Request = {q1, q2}
  Company = {a, b}
  NoCompany = NoCompany
  NoReport = NoReport
  Initial <- OneCompany
  MaxSymbol = 1
  MaxReport = 3
  MaxDay = 2
  MaxEdits = 2
  MaxFaults = 1
SPECIFICATION Spec
SYMMETRY Symmetry
INVARIANTS ScheduledDayWasDue GeneratedIsStored
PROPERTIES NoSilentOverwrite
CHECK_DEADLOCK FALSE
