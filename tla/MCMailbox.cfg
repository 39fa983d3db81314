\* Hard resets of both sides and VBUS changes.
SPECIFICATION Spec
CONSTANTS
  PEHardResets = TRUE
  VbusMoves = TRUE
  LineFlags = {"RXHRST", "HRSTSENT", "TXDISC"}
INVARIANTS
  TypeOK
  SnapshotKeepsEvents
