SPECIFICATION HSpec
CONSTANTS
    AddrSpace = 8192
    MemSize = 1156
    Program <- MCProgram
    TablesInMemory <- AllTables
    OverflowChecks = TRUE
    FirstStep <- ToEither
    UserCode <- UserPrivilege
    UserEntries <- Executing
    UserFlags = {0, 32}
    UserSP <- BothEnds
INVARIANTS NoUnreachable
PROPERTIES UserConfined EretResumes HandlerEntry PreciseExceptions OnlyRetMisaligns FaultIsReal AccessIsReal HandlerOnItsStack HostSurvives
