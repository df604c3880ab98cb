\* The detector: does sendData always return?
SPECIFICATION FairSpec
CONSTANTS
  SketchDriver = sketch
  IsrDriver = panstamp
  MainTries = 1
  IsrTries = 2
  FifoSlots = 1
  MaxAir = 2
  MaxSend = 3
  MaxSleep = 0
\* The bounds MaxAir, MaxSend and MaxSleep end every behaviour.
CHECK_DEADLOCK FALSE
PROPERTIES
  SendReturns
