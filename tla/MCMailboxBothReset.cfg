\* A hard reset of the partner while one of ours is under way.
SPECIFICATION Spec
CONSTANTS
  PEHardResets = TRUE
  VbusMoves = FALSE
  LineFlags = {"RXHRST", "HRSTSENT"}
INVARIANTS
  HardResetDelivered
