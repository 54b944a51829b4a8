CONSTANTS
  t1 = t1
  t2 = t2
  Tasks = {t1, t2}
  Admins = {a1}
  Recordable <- MCRecordable
  MaxConflictRetries = 2
  MaxFaults = 1
SPECIFICATION FairSpec
INVARIANTS
  TypeOK
  OneEntryPerTask
  DocumentsAgree
  ConflictsHaveACause
PROPERTIES
  ImplementsLedger
  CallsEnd
CHECK_DEADLOCK FALSE
