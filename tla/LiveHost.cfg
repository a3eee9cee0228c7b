\* Two ticks every three units of time, at most two of them caught up, two commits.
SPECIFICATION HostSpec
CONSTANTS
  Rate = 2
  PhaseUnits = 3
  CatchUpCap = 2
  MaxCounter = 2
  Elapsed = {0, 1, 2, 5}
  MaxRevision = 2
  MaxFrames = 1
INVARIANTS
  TimeConserved
  NeverMixed
PROPERTIES
  AnswersKeepUp
  HostExits
