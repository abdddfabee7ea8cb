CONSTANTS
  Ids = {s1, s2}
  Handlers = {ha, hb}
  Times = {0, 1, 9}
  MaxTime = 1
  DelayMax = 3
SPECIFICATION NetLiveSpec
CHECK_DEADLOCK FALSE
INVARIANTS OnceAndOnTime
PROPERTIES EarlyCancelWins EventuallyDispatched
