\* One logging thread at the pace of the writer, messages filtered or not.
CONSTANTS
  Loggers = {l1}
  Writer = writer
  Closer = closer
  Monitor = monitor
  Capacity = 2
  MaxCalls = 5
  Levels = {1, 2}
  MinLevel = 2
  Leftover = {0, 1}
  Word = 16
  MaxReserve = 8
  NoEntry = NoEntry
  Unwritten = Unwritten
CHECK_DEADLOCK FALSE
SPECIFICATION FairSpec
INVARIANTS TypeOK NoLostWakeup CloseDrains
PROPERTIES ServiceSpec CloseReturns
