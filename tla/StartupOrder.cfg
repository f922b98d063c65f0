SPECIFICATION Spec
CONSTANTS
  Selector = selector
  SubReactor = {r1, r2}
  Datagram = {d1}
  None = None
CHECK_DEADLOCK FALSE
INVARIANT MessageDemutiplexorFirst
