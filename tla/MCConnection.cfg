SPECIFICATION FairSpec
CONSTANTS
  Codes <- MCCodes
  NoEvent = "EVENT_NONE"
  MaxMoves = 4
INVARIANTS
  TypeOK
  ArmedForNews
  MarkEarned
  AttachedHasPower
PROPERTIES
  AnnouncesInTurn
  Settles
CHECK_DEADLOCK FALSE
