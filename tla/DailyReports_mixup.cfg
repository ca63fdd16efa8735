CONSTANTS
  a = a
  b = b
  Worker = w
  Request = {q1}
  Company = {a, b}
  NoCompany = NoCompany
  NoReport = NoReport
  Initial <- OneCompany
  MaxSymbol = 1
  MaxReport = 2
  MaxDay = 1
  MaxEdits = 2
  MaxFaults = 0
SPECIFICATION Spec
INVARIANT AboutItsSymbol
