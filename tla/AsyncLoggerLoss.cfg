\* Accepted messages missing after an orderly close.
CONSTANTS
  Loggers = {l1}
  Writer = writer
  Closer = closer
  Monitor = monitor
  Capacity = 1
  MaxCalls = 3
  Levels = {2}
  MinLevel = 2
  Leftover = {0}
  Word = 16
  MaxReserve = 8
  NoEntry = NoEntry
  Unwritten = Unwritten
CHECK_DEADLOCK FALSE
SPECIFICATION OverloadSpec
INVARIANTS ClosedFileIsComplete
