SPECIFICATION Spec
CONSTANTS
  MidMax = 2
  NRetry = 1
  SelectsPPS = FALSE
  SourceSends = {"SourceCaps"}
  Requests = {"TRIGGER_POLICY"}
  MaxLosses = 0
  MaxResets = 0
  Collisions = FALSE
  RpChanges = FALSE
  Pace = "PROMPT"
INVARIANT CallbackOnce
CHECK_DEADLOCK FALSE
