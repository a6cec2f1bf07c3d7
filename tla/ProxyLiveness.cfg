\* Two clients on one key, one of which may stop reading; the service refined.
CONSTANTS
  Clients = {c1, c2}
  Keys = {k1}
  Fds = {f1}
  Nobody = Nobody
  NoFd = NoFd
  MaxReply = 2
  BufSize = 1
  Stalled = {c2}
  ThreadsMayFail = FALSE
  AcceptMayFail = FALSE
  OriginMayBeSilent = FALSE
SPECIFICATION Spec
PROPERTIES EventuallyAnswered Implements
