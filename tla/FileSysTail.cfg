\* A program reads and writes lines shorter than a block.
CONSTANTS
  INODE_NUM = 3
  DATABLOCK_NUM = 4
  BITS = 2
  INODE_PER_SECTOR = 2
  SECTOR_SIZE = 2
  NOFILE = 1
  Name = {"a", "b"}
  Sizes = {1}
  Offsets = {0}
  Accesses = {"R", "RW"}
  FsRules = {"last", "dots", "links"}
  Interruptible = {}
  DIR_MAX = 4
  FILE_MAX = 2
SPECIFICATION Spec
INVARIANT ReadsBack
