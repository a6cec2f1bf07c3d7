\* Three clients and two keys for three descriptors, and everything fails.
CONSTANTS
  Clients = {c1, c2, c3}
  Keys = {k1, k2}
  Fds = {1, 2, 3}
  Nobody = Nobody
  Request = Request
  MaxReply = 1
  BufSize = 1
  Stalled = {}
  AcceptInherits = FALSE
  OriginMayRefuse = TRUE
  OriginMayBreakOff = TRUE
  OriginMayBeSilent = TRUE
SPECIFICATION Spec
SYMMETRY Interchangeable
INVARIANTS
  TypeOK NobodyForgotten CacheUsable
CHECK_DEADLOCK FALSE
