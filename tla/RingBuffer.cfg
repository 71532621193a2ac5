\* Three producers, two cells, popAll overlapping nothing.
CONSTANTS
  Producers = {p1, p2, p3}
  Consumers = {c1}
  Capacity = 2
  Word = 8
  MaxReserve = 6
  Entries = {e1, e2}
  Unwritten = Unwritten
  MaxPushes = 5
SYMMETRY RingSymmetry
SPECIFICATION Spec
INVARIANTS TypeOK DeliveredInOrder  QuietSizeIsExact
PROPERTIES ChannelSpec
