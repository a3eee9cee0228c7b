\* One SDK client beside raw posts under the same credentials, three transactions,
\* a window of two receipts, the last sequence in reach, one renewal.
\* Everything may come to rest: the SDK never retries by itself.
SPECIFICATION Spec
CONSTANTS
  Clients = {c1}
  Transactions = {t1, t2, t3}
  WindowSize = 2
  MaxSequence = 3
  MaxEpoch = 2
  MaxStale = 1
  None = None
SYMMETRY Symmetry
INVARIANTS
  ExecutedOnce
  RepliesAreOriginal
PROPERTY SettledBelowWatermark
CHECK_DEADLOCK FALSE
