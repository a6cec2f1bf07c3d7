\* 268 messages, whole and garbled; a 64-bit number has seven bits, a header 26 bytes.
SPECIFICATION Spec
CONSTANTS
  ULLONG_MAX = 127
  max_header_size = 26
  Pieces = {1, 3, 40}
  Messages <- AllMessages
INVARIANTS
  TypeOK
  DoneAtEnd
  MalformedRefused
  AssertionsHold
  KeyRead
PROPERTIES
  CallsReturn
CHECK_DEADLOCK FALSE
