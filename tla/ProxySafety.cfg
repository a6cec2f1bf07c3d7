\* Two clients, two keys, two sockets; whatever may fail does.
CONSTANTS
  Clients = {c1, c2}
  Keys = {k1, k2}
  Fds = {f1, f2}
  Nobody = Nobody
  NoFd = NoFd
  MaxReply = 2
  BufSize = 1
  Stalled = {}
  ThreadsMayFail = TRUE
  AcceptMayFail = TRUE
  OriginMayBeSilent = TRUE
SPECIFICATION Spec
SYMMETRY Interchangeable
INVARIANTS
  TypeOK Exclusion ListenersAccurate LoaderOwnsEntry NoAbandonedEntry
  NoLostWakeup CompleteReply UncacheableEvicted
