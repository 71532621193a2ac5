\* One of two processes archives while both log, rotate, close and crash.
CONSTANTS
  Processes = {p1, p2}
  Archivers = {p1}
  Lengths = {1}
  MaxSize = 2
  FlushSize = 2
  RetentionCount = 2
  MaxLines = 2
SPECIFICATION ArchiveSpec
INVARIANTS ArchiveTypeOK  KeepsFileBesideArchive
