\* The messages of http_parser, read in parts or at once.
SPECIFICATION Spec
CONSTANTS
  ULLONG_MAX = 127
  max_header_size = 26
  Pieces = {1, 3, 40}
  Messages <- AllMessages
INVARIANT KeyAsSent
CHECK_DEADLOCK FALSE
