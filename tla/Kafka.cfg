CONSTANTS
  None = None
  a = a
  b = b
  g1 = g1
  g2 = g2
  c1 = c1
  m1 = m1
  c2 = c2
  Calls = {c1, c2}
  Msgs = {m1, m2}
  Keyed = {m1, m2}
  Members = {a, b}
  Groups = {g1, g2}
  NumPartitions = 2
  Setups <- MCSetups
SPECIFICATION FairSpec
CHECK_DEADLOCK FALSE
INVARIANTS NothingSkipped GroupOrder
PROPERTIES EventuallySettled
