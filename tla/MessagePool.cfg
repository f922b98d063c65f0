SPECIFICATION FairSpec
CONSTANTS
  Worker = {w1, w2, w3}
  MaxMessages = 2
CHECK_DEADLOCK FALSE
INVARIANTS WorkConserving PoolInv
PROPERTIES JoinDescends QueueSpec PushedIsHandled ShutdownCompletes
