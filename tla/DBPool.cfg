SPECIFICATION FairSpec
CONSTANTS
  Client = {c1, c2, c3}
  Owner = owner
  Connection = {x1, x2}
  None = None
CHECK_DEADLOCK FALSE
INVARIANTS OnePlace CleanInv WorkConserving OutlivesHolders
PROPERTIES LendingSpec SomebodyIsServed DestoryCompletes
