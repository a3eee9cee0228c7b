\* Two slots, two generations.  A history of two and seven commits of one
\* operation; or two queries answered around four commits.
SPECIFICATION MCSpec
CONSTANTS
  MaxSlots = 2
  MaxGeneration = 2
  MaxRevision = 7
  MaxOperations = 1
  TempNames = {a}
  TagSets = {{}, {t}}
  M = 1
  Capacity = 2
  SessionRevisions = 4
  MaxSerial = 2
  Grants <- MCGrants
  Queries <- MCQueries
INVARIANTS
  UndoRestores
  PagesOfOneQuery
CHECK_DEADLOCK FALSE
