SPECIFICATION FairSpec
CONSTANTS
  SubReactor = {r1, r2}
  MaxEvents = 2
CHECK_DEADLOCK FALSE
INVARIANTS ShutdownInv DanglesOnlyWhereUnjoined
PROPERTIES ReactorsAreJoined SelectorIsJoined
