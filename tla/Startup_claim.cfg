CONSTANTS
  TableOrder <- MCTableOrder
  Ix <- MCIx
  IxOf <- MCIxOf
  Proc = {api, worker}
  Old = {o1, o2}
  User = {u1, u2}
  Symbol = {s1}
  NoRow = NoRow
  Nobody = Nobody
  MaxFaults = 0
SPECIFICATION FairSpec
PROPERTIES
  OnlySoleUserClaims
