\* A SWAP mote: one driver object for the sketch and the interrupt routine.
SPECIFICATION FairSpec
CONSTANTS
  SketchDriver = panstamp
  IsrDriver = panstamp
  MainTries = 2
  IsrTries = 2
  FifoSlots = 2
  MaxAir = 3
  MaxSend = 2
  MaxSleep = 1
\* The bounds MaxAir, MaxSend and MaxSleep end every behaviour.
CHECK_DEADLOCK FALSE
INVARIANTS
  TypeOK
  ExclusiveRadio
  AtMostOnceOnAir
  ResultIsTruth
  NeverDeaf
PROPERTIES
  DeliversAsChannel
  BothReturnUnlessParked
