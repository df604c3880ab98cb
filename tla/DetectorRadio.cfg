\* The detector: its sketch has a CC1101 object of its own.
SPECIFICATION FairSpec
CONSTANTS
  SketchDriver = sketch
  IsrDriver = panstamp
  MainTries = 1
  IsrTries = 2
  FifoSlots = 1
  MaxAir = 3
  MaxSend = 3
  MaxSleep = 0
\* The bounds MaxAir, MaxSend and MaxSleep end every behaviour.
CHECK_DEADLOCK FALSE
PROPERTIES
  SendReturnsUnlessParked
