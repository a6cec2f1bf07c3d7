\* Two threads are enough: one fast, one slow.
CONSTANTS
  Threads = {t1, t2}
SPECIFICATION Spec
PROPERTIES StopsWhenAsked
CHECK_DEADLOCK FALSE
