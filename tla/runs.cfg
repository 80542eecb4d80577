SPECIFICATION FairRunsSpec
CONSTANTS
  Rate = 100
  MinSoft = 0
  MaxSoft = 1
  Step = 1
  Slack = 1
  Runs = {1, 2}
  Requests = {q1, q2}
  MaxDocuments = 1
  MaxRetries = 1
INVARIANTS
  TypeOK
  OneRunningUnlessOverlapped
  OnePassUnlessStrayed
  FailedRunsPublishNothing
PROPERTIES
  FailedIsSticky
  WatchdogSparesTheLiving
  RunSettles
