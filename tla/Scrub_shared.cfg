SPECIFICATION CalmSpec
CONSTANTS
    Files = {a}
    Inodes = {1, 2, 3, 4, 5}
    NoInode = NoInode
    Absent = Absent
    Blocks <- MCBlocks
    Zero = "zero"
    Procs = {p, q}
    Commands <- InPlaceCommands
    NoCommand = NoCommand
    NoOut = NoOut
    Formats = {"structured", "passthrough"}
    Fallback = "passthrough"
    NoFormat = NoFormat
    Claims <- MCClaims
    HitAt <- FixedShape
    Captures <- Short
    Seat <- MCSeat
    MaxUpdates = 0
    Serialize = FALSE
INVARIANTS WholeFiles
CHECK_DEADLOCK FALSE
