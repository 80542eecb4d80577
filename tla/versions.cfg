SPECIFICATION Spec
CONSTANTS
  Docs = {d1, d2, d3}
  Processed = {d1}
  Tasks = {t1}
  Requests = {q1, q2}
  ExtractorTypes = {w2}
  OtherTypes = {unknown}
  Unknown = unknown
  None = None
  SoftLimit = 0
  HardLimit = 1
  AbandonAfter = 2
  MaxRetries = 1
  MaxBulk = 2
SYMMETRY Symmetry
INVARIANTS
  PendingIsAwaited
PROPERTIES
  ForkNeedsStaleReplace
