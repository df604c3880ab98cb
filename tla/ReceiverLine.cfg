\* Setup, dialogue and posts, with packets arriving all the time.
SPECIFICATION FairSpec
CONSTANTS
  Dialogue <- MCDialogue
  Tuned = "6432"
  StateLen = 4
  DataLen = 5
  Ok <- MCOk
  OkCommand <- MCOkCommand
  OkData <- MCOkData
  Value <- MCValue
  MinValue = 1
  RxCap = 5
  MaxLines = 2
  MaxChunks = 1
\* loop() waits for characters: an idle board is no deadlock.
CHECK_DEADLOCK FALSE
INVARIANTS
  TypeOK
  PostsWholeInOrder
  NothingLostSilently
  TunedUnlessMissed
PROPERTIES
  LoopComesBack
