CONSTANTS
  Appenders = {a1, a2}
  Ids = {e1, e2, e3, e4}
  WindowSize = 3
  ReportLimit = 3
  MaxStamps = 5
SPECIFICATION Spec
SYMMETRY Symmetry
INVARIANTS
  TypeOK
  LinksGoBack
  SerialAppendsVerify
  OnlyForksAndCutsBreakIt
  DamageIsEvident
CHECK_DEADLOCK FALSE
