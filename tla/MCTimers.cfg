SPECIFICATION FairSpec
CONSTANTS
  Timers <- MCTimersSet
  NoTimer = "NONE"
  Channels = {0}
  UCPD_TIMER_CHANNEL <- MCChannelOf
  UCPD_TIMERS_PERIODS <- MCPeriods
  UCPD_TIMERS_EVENTS <- MCEvents
  NoEvent = "EVENT_NONE"
  COUNTER_MOD = 5
INVARIANTS
  TypeOK
  OwnedChannelArmed
  DeadlineExact
PROPERTIES
  EarlyExpiryOnlyInStart
  OwnerEventuallyReleased
