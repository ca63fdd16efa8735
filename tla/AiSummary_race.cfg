CONSTANTS
  Batcher = {worker, r1}
  Reader = {r1}
  Symbol = {s1, s2}
  Article = {a1, a2}
  NoItem = NoItem
  NoText = NoText
  PerSymbol = 1
  MaxItem = 2
  MaxEdits = 1
  MaxFaults = 1
SPECIFICATION FairSpec
INVARIANTS
  SummaryInv
PROPERTIES
  OnlyRivalsReplace
  
