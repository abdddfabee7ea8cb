CONSTANTS
  None = None
  c1 = c1
  c2 = c2
  m1 = m1
  m2 = m2
  sa = sa
  sb = sb
  Calls = {c1, c2}
  Msgs = {m1, m2}
  Subs = {sa, sb}
  Setups <- MCSetups
  MaxAttempts = 2
SPECIFICATION FairSpec
CHECK_DEADLOCK FALSE
INVARIANTS ConsumedOnlyIfAcked OnePlace EarlyCancelWins
PROPERTIES EventuallyHandled
