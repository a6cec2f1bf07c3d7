\* An origin may refuse the connection.
CONSTANTS
  Clients = {c1, c2}
  Keys = {k1}
  Fds = {1, 2, 3, 4}
  Nobody = Nobody
  Request = Request
  MaxReply = 2
  BufSize = 1
  Stalled = {}
  AcceptInherits = TRUE
  OriginMayRefuse = TRUE
  OriginMayBreakOff = FALSE
  OriginMayBeSilent = FALSE
SPECIFICATION Spec
PROPERTIES EventuallyAnswered
CHECK_DEADLOCK FALSE
