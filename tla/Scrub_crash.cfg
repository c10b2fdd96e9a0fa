SPECIFICATION Spec
CONSTANTS
    Files = {a}
    Inodes = {1, 2, 3, 4, 5}
    NoInode = NoInode
    Absent = Absent
    Blocks <- MCBlocks
    Zero = "zero"
    Procs = {p, q}
    Commands <- CrashCommands
    NoCommand = NoCommand
    NoOut = NoOut
    Formats = {"structured", "passthrough"}
    Fallback = "passthrough"
    NoFormat = NoFormat
    Claims <- MCClaims
    HitAt <- FixedShape
    Captures <- Short
    Seat <- MCSeat
    MaxUpdates = 1
    Serialize = TRUE
INVARIANTS TypeOK WholeFiles CrashSafe TmpHoldsOnlyOutput
PROPERTY ImplementsReplace
CHECK_DEADLOCK FALSE
