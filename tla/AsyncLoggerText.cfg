\* The text of a message is read after log() has returned.
CONSTANTS
  Loggers = {l1}
  Writer = writer
  Closer = closer
  Monitor = monitor
  Capacity = 1
  MaxCalls = 1
  Levels = {2}
  MinLevel = 2
  Leftover = {0}
  Word = 16
  MaxReserve = 8
  NoEntry = NoEntry
  Unwritten = Unwritten
CHECK_DEADLOCK FALSE
SPECIFICATION Spec
PROPERTIES FormattedTextIsAlive
