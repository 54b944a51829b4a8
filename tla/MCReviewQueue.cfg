CONSTANTS
  f1 = f1
  a1 = a1
  d1 = d1
  d2 = d2
  Files = {f1}
  Analyses = {a1}
  Decisions = {d1, d2}
  FileOf <- MCFileOf
  Earlier = {}
  Nobody = Nobody
  Lists = {l1, l2}
  Keys = {"all", "pending"}
  TTL = 2
SPECIFICATION Spec
INVARIANTS
  TypeOK
  StaleEntriesAreLate
PROPERTY StaleListsEnd
