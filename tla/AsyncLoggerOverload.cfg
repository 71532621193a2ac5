\* Two loggers that outpace the writer and the buffers.
CONSTANTS
  Loggers = {l1, l2}
  Writer = writer
  Closer = closer
  Monitor = monitor
  Capacity = 1
  MaxCalls = 3
  Levels = {1, 2}
  MinLevel = 2
  Leftover = {0}
  Word = 16
  MaxReserve = 8
  NoEntry = NoEntry
  Unwritten = Unwritten
CHECK_DEADLOCK FALSE
SYMMETRY LoggerSymmetry
SPECIFICATION OverloadSpec
INVARIANTS NoLostWakeupUnderLoad WrittenWasAccepted AcceptedByOneBuffer 
