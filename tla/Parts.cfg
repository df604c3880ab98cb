\* Card: two files, three clusters of two bytes, five calls of which one fails.
\* Configuration: four lines.  Node: two-bit bytes, three packets.
\* Clock: three settings and two hours.  Time: eight-bit timestamps of quarter seconds,
\* two updates, two that fail.  Driver: five calls of which one fails.
SPECIFICATION Spec
CONSTANTS
  NONE = NONE
  Names = {1, 2}
  ClusterCount = 3
  BlockSize = 2
  DirEntries = 2
  Modes = {{"read"}, {"read", "write", "creat"}, {"write", "trunc", "append", "sync"}}
  MaxWrite = 2
  MaxCalls = 5
  MaxFaults = 1
  MaxTransfers = 6
  Keys <- MCKeys
  Lines <- MCLines
  BufferLen = 5
  MaxLines = 4
  ByteSize = 4
  Depth = 2
  Expiration = 2
  Setups <- MCSetups
  FirstAddrs = {2, 3}
  Messages <- MCMessages
  MaxMessages = 3
  Dates <- MCDates
  SetHours = {1, 23}
  Zones <- MCZones
  MaxSettings = 3
  MaxHours = 2
  Seconds = 64
  Second = 4
  Lap = 47
  Ages = {44}
  Bases = {0, 1, 3, 127, 128, 130, 200}
  Delays = {0, 1, 2}
  Timeout = 5
  SampleDays <- MCSampleDays
  SampleClocks = {0, 23296, 63104, 86399}
  MaxUpdates = 2
  MaxTries = 2
  Blocks = {0, 1, 2}
  Values = {2}
  Wrap = 8
  ReadTimeout = 2
  WriteTimeout = 2
  EraseTimeout = 4
  InitTimeout = 3
  MaxSdCalls = 5
  MaxSdFaults = 1
  Lengths = {0, 1, 5, 13, 15, 16, 17, 30, 31, 32}
  FirstBytes = {31, 97}
  SecurityTypes = {0, 1, 2, 3, 4}
  AesKey <- MCAesKey
\* The calls and the packets are bounded.
CHECK_DEADLOCK FALSE
INVARIANTS
  PartsTypeOK
  ReadsBackWritten
  VolumeIsSound
  LoadsWhatIsThere
  NothingTwice
  ConfirmedIsKept
  ChipFollowsCopies
  ClocksTell
  DriverTells
  ProfileIsWhatWasSent
PROPERTIES
  LossHasReason
