SPECIFICATION OwnNameSpec
CONSTANTS
  Peer = {p1, p2}
  Session = {s1, s2, s3}
  Fd = {f1, f2}
  SubReactor = {r1, r2}
  ServiceWorker = {w1}
  MaxUnits = 1
  StaleAddr = {p1, p2}
  EdgeRace = TRUE
  None = None
CHECK_DEADLOCK FALSE
SYMMETRY Symmetry
INVARIANTS SingleOwner OutOfReachOnlyByEvent AbortsOnlyOnReset IInv
PROPERTIES UnregisteredOnlyAtEnd TurnsSpec
