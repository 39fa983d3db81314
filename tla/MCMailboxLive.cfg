\* Messages and hard resets of the partner.
SPECIFICATION FairSpec
CONSTANTS
  PEHardResets = FALSE
  VbusMoves = FALSE
  LineFlags = {"RXHRST", "RXORD", "RXEND", "TXSENT", "TYPEC"}
INVARIANTS
  HardResetDelivered
PROPERTIES
  HardResetHandled
  NothingMaskedForever
