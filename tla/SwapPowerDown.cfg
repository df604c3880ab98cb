\* A SWAP mote that sleeps.
SPECIFICATION Spec
CONSTANTS
  SketchDriver = panstamp
  IsrDriver = panstamp
  MainTries = 2
  IsrTries = 2
  FifoSlots = 2
  MaxAir = 2
  MaxSend = 1
  MaxSleep = 1
\* The bounds MaxAir, MaxSend and MaxSleep end every behaviour.
CHECK_DEADLOCK FALSE
INVARIANTS
  AsleepIsPoweredDown
