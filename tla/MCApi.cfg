SPECIFICATION ApiFairSpec
CONSTANTS
  MidMax = 1
  NRetry = 0
  SelectsPPS = FALSE
  SourceSends = {"EPRFail"}
  Requests = {}
  MaxLosses = 1
  MaxResets = 1
  Collisions = FALSE
  RpChanges = FALSE
  Pace = "PROMPT"
  ThreadCalls = {"EnterEPR"}
  CodeCalls = {"TriggerPolicy", "ExitEPRAsync"}
  CodePlaces = {"CALLBACK", "POLICY", "PORT_CALLBACK"}

  
PROPERTIES
  RequestKept
  SpinEnds
CHECK_DEADLOCK FALSE
