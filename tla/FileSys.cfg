\* Programs that keep to the rules, and resets in the calls that survive one.
CONSTANTS
  INODE_NUM = 3
  DATABLOCK_NUM = 4
  BITS = 2
  INODE_PER_SECTOR = 2
  SECTOR_SIZE = 2
  NOFILE = 1
  Name = {a, b}
  Sizes = {1, 2}
  Offsets = {2, 4}
  Accesses = {"RW"}
  FsRules = {"last", "dots", "links"}
  Interruptible = {"mkdir", "touch", "ln", "write"}
  DIR_MAX = 4
  FILE_MAX = 3
SPECIFICATION Spec
INVARIANTS
  FsTypeOK
  NothingShared
  NamesHold
PROPERTY ImplementsFileTree
SYMMETRY Symmetry
