\* Two requests, two workers, two generations.
SPECIFICATION Spec
CONSTANTS
  MaxRequests = 2
  MaxWorkers = 2
  MaxGeneration = 2
  None = None
INVARIANTS
  SettledFirst
  OnlyWantedIsWritten
  ClosedIsQuiet
PROPERTIES
  ThreadsEnd
