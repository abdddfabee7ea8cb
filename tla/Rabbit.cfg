CONSTANTS
  None = None
  Msgs = {m1, m2}
  Subs = {sa, sb}
  Modes <- MCModes
  MaxDeliveries = 2
  MaxDelivered = 5
  MaxCrashes = 1
SPECIFICATION Spec
SYMMETRY Symmetry
CHECK_DEADLOCK FALSE
INVARIANTS PublishesToDeclared NothingLost OneEnding SettledOnce AttemptsBounded
