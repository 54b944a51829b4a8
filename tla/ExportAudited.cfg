CONSTANTS
  s1 = s1
  r1 = r1
  r2 = r2
  x1 = x1
  x2 = x2
  Stories = {s1}
  Runs = {}
  Edits = {e1}
  Exports = {x1}
  StoryOf <- MCStoryOf
  Nothing = Nothing
  MaxCallers = 2
  MaxFaults = 0
SPECIFICATION Spec
INVARIANT ExportsAreAudited
CHECK_DEADLOCK FALSE
