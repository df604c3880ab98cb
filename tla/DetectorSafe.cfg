\* Alarms, their repetition and their end, with one data cycle under way.
SPECIFICATION Spec
CONSTANTS
  Alarms <- MCAlarms
  Notices <- MCNotices
  Commands <- MCCommands
  End = "8220000000EC"
  LineCap = 3
  MaxEvents = 3
  MaxCycles = 0
INVARIANTS
  TypeOK
  AlarmsAlternate
  FlagFollowsHead
