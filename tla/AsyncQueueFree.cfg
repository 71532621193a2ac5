\* popAll entered by two threads at once, against the contract.
CONSTANTS
  Producers = {p1, p2}
  Consumers = {c1, c2}
  Capacity = 2
  Word = 16
  Entries = {e1}
  NoEntry = NoEntry
  MaxTickets = 3
SYMMETRY QueueSymmetry
CHECK_DEADLOCK FALSE
SPECIFICATION FreeSpec
INVARIANTS HeadBehindTail
