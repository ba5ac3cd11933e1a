\* Two threads of a probe send a packet each to the library.
SPECIFICATION Spec
CONSTANTS
  w1 = w1
  w2 = w2
  NoWriter = NoWriter
  NoType = NoType
  Writers <- TheWriters
  Script <- TheScript
  PipeSize = 9
  RecvBufSize = 6
INVARIANTS TypeOK OnlyKnownFailures
PROPERTIES ImplementsChannel PacketsAreTaken
CHECK_DEADLOCK FALSE
