CONSTANTS
  u1 = u1
  p1 = p1
  l1 = l1
  Uploads = {u1}
  Pulls = {p1}
  Listings = {l1}
  FileCount <- MCFileCount
  Text <- MCText
  LineBudget = 2
  OverlapLines = 1
  Deliveries = {1, 2}
  Nobody = Nobody
  MaxLines = 10
  Programs = {1, 2, 3}
  Extractions <- MCExtractions
  SelfChecks = {0, 4}
  Invalid = Invalid
  None = None
  Outputs = {Invalid, 650, 900}
SPECIFICATION MCSpec
INVARIANTS
  TypeOK
  AcceptedIsComplete
  OnePipelinePerFile
  ChunksCoverTheFile
  EpicsAreComponents
CHECK_DEADLOCK FALSE
