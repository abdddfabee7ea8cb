CONSTANTS
  s1 = s1  s2 = s2  i1 = i1
  q1 = q1  q2 = q2
  Ids = {s1, s2}
  Instant = {i1}
  Handlers = {ha}
  Dests = {q1, q2}
  DestOf <- MCDestOf
  Times = {0, 1, 3}
  MaxTime = 4
  TimerMax = 3
  MaxDispose = 1
SPECIFICATION LiveSpec
CHECK_DEADLOCK FALSE
INVARIANTS TypeOK AtMostOnce
PROPERTIES ImplementsPort EventuallyFires
