SPECIFICATION Spec
CONSTANTS
  SECTOR_SIZE = 3
  Window = 2
  Record = 2
  MAX_HANDLERS = 3
  Lengths = {1, 2}
  MaxSectors = 5
  FileSize = 7
  MaxSeek = 1
  IntMax = 16
ACTION_CONSTRAINT Bounded
INVARIANTS SearchExact ReadReturnsFile
PROPERTIES HandlesKept
