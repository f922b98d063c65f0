SPECIFICATION FairSpec
CONSTANTS
  Selector = selector
  SubReactor = {r1, r2}
  Datagram = {d1, d2}
  None = None
CHECK_DEADLOCK FALSE
INVARIANTS StartupInv LoopsOverCompleteTables
PROPERTIES ExposedOnlyIfBegunEarlier ConstructionEnds LaterIsHandled
