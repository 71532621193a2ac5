\* Two producers, two threads that take turns as the consumer, two cells
\* reused once: safety, the bounded channel, and every call returns.
CONSTANTS
  Producers = {p1, p2}
  Consumers = {c1, c2}
  Capacity = 2
  Word = 16
  Entries = {e1, e2}
  NoEntry = NoEntry
  MaxTickets = 3
SPECIFICATION FairSpec
INVARIANTS DeliveredInOrder ReservedSlotIsFree CellExclusive SizeAccounts QueueInv
PROPERTIES ChannelSpec PushReturns PopReturns
