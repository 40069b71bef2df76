SPECIFICATION HSpec
CONSTANTS
    AddrSpace = 8192
    MemSize = 1156
    Program <- MCProgram
    TablesInMemory <- SwitchingTables
    OverflowChecks = FALSE
    FirstStep <- ToFirst
    UserCode <- KernelPrivilege
    UserEntries <- OnlyUser
    UserFlags = {0}
    UserSP = {8}
INVARIANTS TypeOK CachedTableValid
PROPERTIES ImplementsTraps LockupIsFinal
