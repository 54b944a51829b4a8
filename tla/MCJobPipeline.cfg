CONSTANTS
  Kinds = {"analysis", "epics", "code"}
  MaxFaults = 2
  MaxOutages = 1
SPECIFICATION FairSpec
INVARIANTS
  TypeOK
  StagesInOrder
  OutcomeExplained
  KillObeyed
  KillConfines
PROPERTIES
  JobEnds
CHECK_DEADLOCK FALSE
