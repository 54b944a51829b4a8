CONSTANTS
  c1 = c1
  c2 = c2
  c3 = c3
  o1 = o1
  o2 = o2
  pom = pom
  main = main
  tests = tests
  Calls = {c1, c2, c3}
  Refused = {c3}
  Others = {o1, o2}
  Files = {pom, main, tests}
  Writes <- MCWrites
  NoFile = NoFile
  MaxRefUpdateRetries = 2
  MaxFaults = 1
SPECIFICATION FairSpec
INVARIANTS
  TypeOK
  RejectionMeansMoved
  AuditIsTruthful
PROPERTIES
  ImplementsBranch
  CallsEnd
CHECK_DEADLOCK FALSE
