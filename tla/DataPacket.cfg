SPECIFICATION Spec
CONSTANTS
  MAXSIZE = 4
  IntMax = 31
  Sizes <- MCSizes
CHECK_DEADLOCK FALSE
INVARIANTS PacketInv DataIsStream  
