SPECIFICATION FairSpec
CONSTANTS
  MidMax = 2
  NRetry = 1
  SelectsPPS = FALSE
  SourceSends = {"EPRFail"}
  Requests = {"EPR_MODE_ENTRY", "EPR_MODE_EXIT"}
  MaxLosses = 1
  MaxResets = 0
  Collisions = FALSE
  RpChanges = FALSE
  Pace = "PROMPT"
PROPERTIES Recovers Answered
CHECK_DEADLOCK FALSE
