\* Two data cycles, and a frame of the head that falls into one of them.
SPECIFICATION FairSpec
CONSTANTS
  Alarms <- MCAlarms
  Notices <- MCNotices
  Commands <- MCCommands
  End = "8220000000EC"
  LineCap = 3
  MaxEvents = 1
  MaxCycles = 1
INVARIANTS
  FramesInOrder
  CleanCycle
PROPERTIES
  LoopComesBack
