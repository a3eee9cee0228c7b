\* Two extents that fit, the larger to the last byte, and one over the pixel budget.
SPECIFICATION Spec
CONSTANTS
  Extents = {1, 2, 3}
  MaxPixels = 2
  MaxBytes = 22
  Padding = 1
  MaxFrames = 6
  InitialRevision = 1
  FinalRevision = 3
  MaxRevision = 3
  MaxChanges = 3
  Modes = {"scripted", "interactive", "live"}
INVARIANTS
  InFlightIsAlive
  NothingOutlives
  FramesShowTheirPacket
  ReportedIsVisible
PROPERTIES
  RunEnds
