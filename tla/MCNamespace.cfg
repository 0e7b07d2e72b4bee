\* Two names, a file, a directory, and a listing or two saves.
SPECIFICATION Spec
CONSTANTS
  a = a
  b = b
  Name <- MCName
  MaxDepth = 2
  Expire = 1
  MaxFiles = 1
  MaxDirs = 1
  MaxLists = 1
  MaxSaves = 2
  MaxTick = 3
CONSTRAINT ListsOrSaves
SYMMETRY MCSymmetry
INVARIANTS
  TypeOK
  HeldNodesLive
  FilesKeepBlocks
PROPERTIES
  FreedAfterExpiry
CHECK_DEADLOCK FALSE
