\* Four commits, a window of two receipts.  The fourth commit fits the quota only
\* when the journal was compacted before, which the quota allows after the second.
\* The system may stop for good: a create that was interrupted cannot be resumed.
SPECIFICATION Spec
CONSTANTS
  CommitLimit = 4
  ReceiptLimit = 2
  Quota = 16
  Payloads = {p, q}
  Ticks = {1, 2}
  Absent = Absent
  None = None
SYMMETRY Symmetry
INVARIANTS
  AlwaysRecoverable
  CrashOracle
PROPERTY ImplementsLog
CHECK_DEADLOCK FALSE
