SPECIFICATION Spec
CONSTANTS
  Docs = {d1}
  Processed = {d1}
  Tasks = {t1, t2}
  Requests = {q1, q2}
  ExtractorTypes = {w2}
  OtherTypes = {unknown}
  Unknown = unknown
  None = None
  SoftLimit = 0
  HardLimit = 1
  AbandonAfter = 2
  MaxRetries = 1
  MaxBulk = 1
SYMMETRY Symmetry
INVARIANT NeverSilentlyPending
