CONSTANTS
  Kinds = {"analysis", "epics", "code"}
  MaxFaults = 0
  MaxOutages = 1
SPECIFICATION Spec
INVARIANTS
  KillIsDurable
CHECK_DEADLOCK FALSE
