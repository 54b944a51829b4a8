CONSTANTS
  s1 = s1
  r1 = r1
  r2 = r2
  x1 = x1
  x2 = x2
  Stories = {s1, s2}
  Runs = {r1, r2}
  Edits = {e1}
  Exports = {x1, x2}
  StoryOf <- MCStoryOf
  Nothing = Nothing
  MaxCallers = 3
  MaxFaults = 2
SPECIFICATION MCSpec
INVARIANTS
  TypeOK
  DocumentsTellTheTruth
  AnswersStayTrue
PROPERTIES
  ImplementsFields
  GenerationSettles
CHECK_DEADLOCK FALSE
