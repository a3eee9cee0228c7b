\* Three slots, two generations, three commits of at most two operations, two of
\* them recorded at most.
SPECIFICATION ReplaySpec
CONSTANTS
  EntryLimit = 2
  Ticks = {0, 1}
  MaxSlots = 3
  MaxGeneration = 2
  MaxRevision = 3
  MaxOperations = 2
  TempNames = {a, b}
  TagSets = {{}, {t}}
  M = 3
SYMMETRY Symmetry
INVARIANTS
  ExportsReplay
  HierarchySound
  CreatedHandlesAreNew
PROPERTIES
  DeadHandlesStayDead
  EditsAreStamped
CHECK_DEADLOCK FALSE
