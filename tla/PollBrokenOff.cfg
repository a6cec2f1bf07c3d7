\* An origin may fail in mid-reply.
CONSTANTS
  Clients = {c1, c2}
  Keys = {k1}
  Fds = {1, 2, 3, 4}
  Nobody = Nobody
  Request = Request
  MaxReply = 2
  BufSize = 1
  Stalled = {}
  AcceptInherits = TRUE
  OriginMayRefuse = FALSE
  OriginMayBreakOff = TRUE
  OriginMayBeSilent = FALSE
SPECIFICATION Spec
PROPERTIES SentOwnReply
CHECK_DEADLOCK FALSE
