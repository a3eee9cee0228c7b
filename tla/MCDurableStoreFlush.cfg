\* The store of MCDurableStore, asked whether a reported record was flushed.
SPECIFICATION Spec
CONSTANTS
  CommitLimit = 3
  ReceiptLimit = 2
  Quota = 13
  Payloads = {p, q}
  Ticks = {1, 2}
  Absent = Absent
  None = None
SYMMETRY Symmetry
INVARIANT ReportedIsFlushed
CHECK_DEADLOCK FALSE
