\* Three processes, any of which may rotate.
CONSTANTS
  Processes = {p1, p2, p3}
  Lengths = {1, 2}
  MaxSize = 2
  FlushSize = 3
  RetentionCount = 2
  MaxLines = 2
SYMMETRY ProcessSymmetry
SPECIFICATION Spec
INVARIANTS TypeOK OwnFileUntilStrayed KeepsFile  AcceptedInOnePlace LossIsBounded HistoryIsNewest
