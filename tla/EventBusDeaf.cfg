SPECIFICATION FairSpec
CONSTANTS
  Events = {e1}
  Runners = {k1, k2}
  Retries = 1
  MaxRetries = 1
  MaxBreaks = 2
  None = None
PROPERTY FailedLandsInDLQ
CHECK_DEADLOCK FALSE
