CONSTANTS
  f1 = f1
  f2 = f2
  f3 = f3
  p = p
  q = q
  a1 = a1
  a2 = a2
  a3 = a3
  a4 = a4
  d1 = d1
  d2 = d2
  d3 = d3
  w1 = w1
  Files = {f1, f2, f3}
  Programs = {p, q}
  Analyses = {a1, a2, a3, a4}
  Decisions = {d1, d2, d3}
  Summaries = {w1}
  Runs = {r1}
  FileOf <- MCFileOf
  ProgramOf <- MCProgramOf
  Story <- MCStory
  Earlier = {a1, a3, a4}
  Nobody = Nobody
SPECIFICATION Spec
INVARIANTS
  TypeOK
  CodeHasApproval
  ListedIsAccepted
PROPERTY ImplementsLedger
CHECK_DEADLOCK FALSE
