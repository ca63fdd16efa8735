CONSTANTS
  market = market
  market2 = market2
  common = common
  preferred = preferred
  other = other
  User = {u1, u2}
  Request = {q1, q2}
  Collector = {k1}
  Market = {market, market2}
  Code = {common, preferred, other}
  CommonOf <- MCCommonOf
  Krx <- MCKrx
  Fallback <- MCFallback
  NoRow = NoRow
  MaxId = 2
  MaxEdits = 3
SPECIFICATION Spec
SYMMETRY SymbolSymmetry
INVARIANTS
  RegistryInv
  WrittenByOwner
  CollectedIsShown
  OnlyItsCompany
