SPECIFICATION Spec
CONSTANTS
  MidMax = 2
  NRetry = 2
  SelectsPPS = FALSE
  SourceSends = {"SourceCaps", "Unknown", "Soft_Reset", "Alert"}
  Requests = {}
  MaxLosses = 2
  MaxResets = 1
  Collisions = TRUE
  RpChanges = TRUE
  Pace = "SLOW"
INVARIANTS TypeOK LinkInv CountInv DeliveredOnce TransitionGuarded NotSurprised NotMistaken ContractAgreed ConvInv
CHECK_DEADLOCK FALSE
