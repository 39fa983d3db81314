SPECIFICATION FairSpec
CONSTANTS
  Messages <- MCMessages
  Size <- MCSize
  ChunkLen = 2
  BufferLen = 5
  CountMod = 8
  NoMessage = "NONE"
INVARIANTS
  TypeOK
  PassedUpWhole
  DoneIsPassedUp
PROPERTIES
  ReceptionEnds
