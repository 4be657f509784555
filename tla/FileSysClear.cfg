\* Directories are removed in any order.
CONSTANTS
  INODE_NUM = 4
  DATABLOCK_NUM = 4
  BITS = 2
  INODE_PER_SECTOR = 2
  SECTOR_SIZE = 2
  NOFILE = 0
  Name = {"a", "b"}
  Sizes = {}
  Offsets = {}
  Accesses = {"RW"}
  FsRules = {"dots", "links"}
  Interruptible = {}
  DIR_MAX = 4
  FILE_MAX = 2
SPECIFICATION Spec
PROPERTY FreesOne
