\* Two files onto every small image, fresh or with an old file on it.
SPECIFICATION Spec
CONSTANTS
  BootSectors <- MCBoots
  DirEntrySize = 2
  Fat12Limit = 7
  Fat16Limit = 10
  Files <- MCFiles
  Sum <- MCSum
  OldFile <- MCOld
  MaxWrites = 3
INVARIANTS
  FilesReadBack
  CopiesAgree
PROPERTIES
  RoomIsUsed
CHECK_DEADLOCK FALSE
