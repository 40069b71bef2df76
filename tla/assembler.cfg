SPECIFICATION FairSpec
CONSTANTS
    AddrSpace = 64
    Names = {"a", "b"}
    MaxItems = 4
    Programs <- MCPrograms
    DebugPrograms <- MCDebugPrograms
INVARIANTS TypeOK IInv PassesAgree LabelsPointAtItems BranchesLand ImageComplete LayoutFailsEarly
PROPERTY Termination
