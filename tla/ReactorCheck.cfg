SPECIFICATION Spec
CONSTANTS
  Peer = {p1}
  Session = {s1}
  Fd = {f1}
  SubReactor = {r1}
  ServiceWorker = {w1}
  MaxUnits = 1
  StaleAddr = {}
  EdgeRace = FALSE
  None = None
CHECK_DEADLOCK FALSE
INVARIANT SessionFound
