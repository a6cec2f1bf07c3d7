\* Two clients, one of which may stop reading, and two keys; sockets do not block.
CONSTANTS
  Clients = {c1, c2}
  Keys = {k1, k2}
  Fds = {1, 2, 3, 4}
  Nobody = Nobody
  Request = Request
  MaxReply = 2
  BufSize = 1
  Stalled = {c2}
  AcceptInherits = TRUE
  OriginMayRefuse = FALSE
  OriginMayBreakOff = FALSE
  OriginMayBeSilent = FALSE
SPECIFICATION Spec
INVARIANTS
  PollListExact RoundFresh WaitedForIsLoading OwnReply
  PausedUpToDate CompleteReply
PROPERTIES EventuallyAnswered Implements
