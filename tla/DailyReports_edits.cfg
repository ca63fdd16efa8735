CONSTANTS
  a = a
  b = b
  Worker = w
  Request = {q1}
  Company = {a, b}
  NoCompany = NoCompany
  NoReport = NoReport
  Initial <- TwoCompanies
  MaxSymbol = 2
  MaxReport = 3
  MaxDay = 1
  MaxEdits = 2
  MaxFaults = 1
SPECIFICATION FairSpec
INVARIANT TypeOK
PROPERTIES AbortedByDeletion DueDayIsReported EverySymbolIsReported
CHECK_DEADLOCK FALSE
