CONSTANTS
  TableOrder <- MCTableOrder
  Ix <- MCIx
  IxOf <- MCIxOf
  Proc = {api, worker}
  Old = {o1, o2}
  User = {u1}
  Symbol = {s1}
  NoRow = NoRow
  Nobody = Nobody
  MaxFaults = 1
SPECIFICATION FairSpec
INVARIANTS
  SchemaInv
  LiveRunSpared
PROPERTIES
  BothServe
