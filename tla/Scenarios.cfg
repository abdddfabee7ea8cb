CONSTANTS
  Consumers = {"a", "b", "c"}
  Scripts <- MCScripts
  Count = 3
  Words = {"order", "created"}
  MaxWords = 3
SPECIFICATION FairSpec
CHECK_DEADLOCK FALSE
INVARIANTS EachHasItsOwn SelectorLosesNothing
PROPERTIES EveryScenarioPasses
