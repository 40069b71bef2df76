SPECIFICATION Spec
CONSTANTS
    AddrSpace = 16
    Regs = {"x", "y"}
    Sizes = {1, 2}
    WordSize = 2
    ByteBits = 2
    ImmBits = 2
    LoadBits = 2
    Instrs <- MCInstrs
    OverflowChecks = TRUE
INVARIANT TypeOK
PROPERTY ImplementsArithmetic
