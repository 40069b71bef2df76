SPECIFICATION HSpec
CONSTANTS
    AddrSpace = 8192
    MemSize = 1156
    Program <- MCProgram
    TablesInMemory <- SwitchingTables
    OverflowChecks = TRUE
    FirstStep <- ToFirst
    UserCode <- OnlyStorePair
    UserEntries <- OnlyUser
    UserFlags = {32}
    UserSP = {8}
INVARIANTS StoresPairs
