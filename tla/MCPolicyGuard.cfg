\* Three slots, two principals, four commits of at most four operations.
SPECIFICATION PolicySpec
CONSTANTS
  MaxSlots = 3
  MaxGeneration = 2
  MaxRevision = 4
  MaxOperations = 4
  TempNames = {a, b}
  TagSets = {{}}
  M = 3
  west = west
  east = east
  Principals <- MCPrincipals
  Holders = {h1, h2, h3}
  Bodies = {0, 2}
  Base = 3
  WorkingLimit <- MCWorkingLimit
  RetainedLimit <- MCRetainedLimit
  Region <- MCRegion
  Skeleton = 1
  Cube = 2
  GlobalLimit = 2
  None = None
SYMMETRY Symmetry
INVARIANTS
  BooksBalance
  LedgerDescribesWorld
  CubesInRegion
PROPERTIES
  ForeignCubesUntouched
CHECK_DEADLOCK FALSE
