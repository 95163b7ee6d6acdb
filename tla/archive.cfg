CONSTANTS
  Threads = {t1, t2}
  FILE_SIZE <- MCFileSize
  Header = 2
  BufferSize = 2
  DataLengths = {3, 4, 5}
  MaxReads = 3
SPECIFICATION ArchiveSpec
INVARIANTS
  ArchiveTypeOK
  RightUntilOverlap
  SeeksCancel
CHECK_DEADLOCK FALSE
