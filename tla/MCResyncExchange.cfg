\* Two clients, sequences to 3, one renewal, two connections in the backlog.
SPECIFICATION ResyncSpec
CONSTANTS
  Clients = {c1, c2}
  MaxSequence = 3
  MaxEpoch = 2
  Backlog = 2
  None = None
SYMMETRY Symmetry
INVARIANTS
  ResyncSettles
  KnowsItsCommits
CHECK_DEADLOCK FALSE
