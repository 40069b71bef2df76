SPECIFICATION Spec
CONSTANTS
    AddrSpace = 8
    ByteBits = 1
    WordBytes = 3
    Sizes = {1, 2, 3}
    MemSize = 6
    Regs = {"r0", "rsp"}
    SP = "rsp"
    Instrs <- MCInstrs
    Values <- MCValues
    Images <- MCImages
INVARIANTS StackHolds
PROPERTIES ImplementsStack PopsInOrder Contained
CHECK_DEADLOCK FALSE
