SPECIFICATION FairSpec
CONSTANTS
  Codes = {0,1040}
  NoEvent = "EVENT_NONE"
  MaxMoves = 4
PROPERTIES
  StartsCommunication
CHECK_DEADLOCK FALSE
