SPECIFICATION FairSpec
CONSTANTS
  Events = {e1}
  Runners = {k1, k2}
  Retries = 1
  MaxRetries = 2
  MaxBreaks = 2
  None = None
INVARIANTS TypeOK NoConfirmedEventLost OnceWithoutTrouble
PROPERTIES KeepsContract ConnectedConsumerSettles
CHECK_DEADLOCK FALSE
