CONSTANTS
  None = None
  Calls = {c1, c2}
  Consumers = {k1, k2}
  MaxRetryAttempts = 2
  ConsecutiveFailures = 3
  Injections = {2}
  MaxErrors = 1
  MaxMishaps = 1
SPECIFICATION FairSpec
CHECK_DEADLOCK FALSE
INVARIANTS BlipAbsorbed EffectivelyOnce
PROPERTIES OpensForCause EventuallyProcessed
