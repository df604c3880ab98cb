\* Two sockets and two clients of the server; two attempts to join a network.
SPECIFICATION Spec
CONSTANTS
  Sds = {0, 1}
  MAX_SERVER_CLIENTS = 2
  MaxAttempts = 2
  MaxNews = 3
\* A sketch may stop calling.
CHECK_DEADLOCK FALSE
INVARIANTS
  NetTypeOK
  SocketsAreOwned
  ClosesOnlyItsOwn
  BitsFollowLink
PROPERTIES
  MethodsReturn
