\* Does the lookup of a name always end?
SPECIFICATION FairSpec
CONSTANTS
  Dialogue <- MCDialogue
  Tuned = "6432"
  StateLen = 4
  DataLen = 5
  Ok <- MCOk
  OkCommand <- MCOkCommand
  OkData <- MCOkData
  Value <- MCValue
  MinValue = 1
  RxCap = 1
  MaxLines = 0
  MaxChunks = 1
\* loop() waits for characters: an idle board is no deadlock.
CHECK_DEADLOCK FALSE
PROPERTIES
  LookupEnds
