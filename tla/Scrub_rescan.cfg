SPECIFICATION CalmSpec
CONSTANTS
    Files = {a}
    Inodes = {1, 2, 3, 4, 5}
    NoInode = NoInode
    Absent = Absent
    Blocks <- MCBlocks
    Zero = "zero"
    Procs = {p}
    Commands <- InPlaceCommands
    NoCommand = NoCommand
    NoOut = NoOut
    Formats = {"structured", "passthrough"}
    Fallback = "passthrough"
    NoFormat = NoFormat
    Claims <- MCClaims
    HitAt <- KeywordHits
    Captures <- Keyed
    Seat <- MCSeat
    MaxUpdates = 0
    Serialize = FALSE
INVARIANTS RescanIsClean
CHECK_DEADLOCK FALSE
