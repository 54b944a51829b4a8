CONSTANTS
  Appenders = {a1, a2}
  Ids = {e1, e2}
  WindowSize = 2
  ReportLimit = 2
  MaxStamps = 2
SPECIFICATION Spec
INVARIANT InvalidMeansDamage
CHECK_DEADLOCK FALSE
