SPECIFICATION Spec
CONSTANTS
    Slot = {0, 1, 2}
    BASE = 4
    FREEMEM = 1
    PGDIR = 25
    USER_STACK_ADDR = 31
    KERNEL_STACK_ADDR = 32
    ENTRY = 3
    Images <- MCImages
    Args = {8}
    Touched = {5}
    Values = {9}
    GARBAGE = 1
INVARIANTS PagingTypeOK FramesUsedOnce StacksApart
PROPERTY ImplementsAddressSpaces
