\* Two data buffers, and two events beside the answers and the credits.
SPECIFICATION FairSpec
CONSTANTS
  Sds = {0}
  HostCalls <- MCCalls
  ChipBuffers = 2
  MaxEvents = 2
  QueueCap = 2
  None = None
\* The driver may stop for good: that is what CallReturns is about.
CHECK_DEADLOCK FALSE
INVARIANTS
  CcTypeOK
  CreditsConserved
  DeafOnlyWithPacket
PROPERTIES
  CallsAreCarriedOut
  CallReturns
