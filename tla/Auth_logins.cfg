CONSTANTS
  Browser = {b1}
  Tab = {t1, t2}
  Sub = {s1, s2}
  Email = {e1, e2}
  Allowed = {e1, e2}
  NoEmail = NoEmail
  NoTab = NoTab
  NoUser = NoUser
  MaxUser = 2
  MaxToken = 3
  MaxMoves = 2
SPECIFICATION Spec
SYMMETRY AuthSymmetry
INVARIANTS
  TypeOK
  SessionOfItsAccount
  NoEmptyAccount
  AddressIsCurrent
  OnlyOvertakenRefused
PROPERTIES
  IdentityKept
