CONSTANTS
  m1 = m1  m2 = m2  m3 = m3
  a = a  b = b
  g1 = g1  g2 = g2
  NoHandler = NoHandler
  Msgs = {m1, m2}
  Handlers = {a, b}
  Groups = {g1, g2}
  GroupOf <- MCGroupOf
  PriorityOf <- MCPriorityOf
  Setups <- RetrySetup
  RRPeriod = 2
  MaxAttach <- AttachOnce
SPECIFICATION LiveSpec
CHECK_DEADLOCK FALSE
PROPERTIES EveryMessageLeaves
