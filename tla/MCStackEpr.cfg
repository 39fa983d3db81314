SPECIFICATION Spec
CONSTANTS
  MidMax = 2
  NRetry = 1
  SelectsPPS = TRUE
  SourceSends = {}
  Requests = {"EPR_MODE_ENTRY", "EPR_MODE_EXIT", "HARD_RESET"}
  MaxLosses = 0
  MaxResets = 1
  Collisions = FALSE
  RpChanges = FALSE
  Pace = "PROMPT"
INVARIANTS KeepAliveGuarded EprAgreed KeptAlive
CHECK_DEADLOCK FALSE
