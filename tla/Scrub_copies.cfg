SPECIFICATION FairSpec
CONSTANTS
    Files = {a, b}
    Inodes = {1, 2, 3, 4, 5, 6, 7}
    NoInode = NoInode
    Absent = Absent
    Blocks <- MCBlocks
    Zero = "zero"
    Procs = {p, q}
    Commands <- CopyCommands
    NoCommand = NoCommand
    NoOut = NoOut
    Formats = {"structured", "passthrough"}
    Fallback = "passthrough"
    NoFormat = NoFormat
    Claims <- MCClaims
    HitAt <- FixedShape
    Captures <- Two
    Seat <- MCSeat
    MaxUpdates = 1
    Serialize = TRUE
INVARIANTS HandlerMatches
PROPERTIES OriginalKept PublishesRedaction Terminates
CHECK_DEADLOCK FALSE
