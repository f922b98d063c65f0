SPECIFICATION StreamSpec
CONSTANTS
  Peer = {p1}
  Session = {1, 2, 3}
  Fd = {1, 2}
  SubReactor = {r1, r2}
  ServiceWorker = {w1}
  MaxUnits = 3
  StaleAddr = {p1}
  EdgeRace = TRUE
  None = None
CHECK_DEADLOCK FALSE
INVARIANTS NothingLost DatagramsContiguous OvertakenOnlyAtPush
PROPERTIES SentIsHandled
