SPECIFICATION FairSpec
CONSTANTS
  Docs = {d1}
  Processed = {d1}
  Tasks = {t1}
  Requests = {q1, q2}
  ExtractorTypes = {w2}
  OtherTypes = {unknown}
  Unknown = unknown
  None = None
  SoftLimit = 1
  HardLimit = 2
  AbandonAfter = 3
  MaxRetries = 1
  MaxBulk = 1
PROPERTIES
  StartedRunSettles
  NeverStuckInFlight
