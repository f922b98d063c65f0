SPECIFICATION Spec
CONSTANTS
  Peer = {p1, p2}
  Session = {s1, s2, s3}
  Fd = {f1, f2}
  SubReactor = {r1}
  ServiceWorker = {w1}
  MaxUnits = 1
  StaleAddr = {}
  EdgeRace = FALSE
  None = None
CHECK_DEADLOCK FALSE
INVARIANT EverySessionListenedTo
