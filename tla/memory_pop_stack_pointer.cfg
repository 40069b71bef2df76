SPECIFICATION Spec
CONSTANTS
    AddrSpace = 8
    ByteBits = 1
    WordBytes = 3
    Sizes = {1, 2, 3}
    MemSize = 6
    Regs = {"r0", "rsp"}
    SP = "rsp"
    Instrs <- MCInstrs
    Values <- MCValues
    Images <- MCImages
PROPERTY PopKeepsLoaded
CHECK_DEADLOCK FALSE
