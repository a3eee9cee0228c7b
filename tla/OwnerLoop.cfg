\* Two of run_policy's three workers, so that liveness can be checked, and its two
\* leases; a batch of two ticks or an overload, one commit, fair threads.
SPECIFICATION FairSpec
CONSTANTS
  Workers = {w1, w2}
  Principals = {west, east}
  GlobalLimit = 2
  QueueLimit = 2
  Elapsed = {0, 2, 3}
  MaxRevision = 1
  Rate = 1
  PhaseUnits = 1
  CatchUpCap = 2
  MaxCounter = 2
  None = None
INVARIANTS
  CapturesAlive
  AckedIsPublished
  RefusedNeverRan
PROPERTIES
  ReadsOvertake
  ProcessExits
