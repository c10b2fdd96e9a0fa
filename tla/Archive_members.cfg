SPECIFICATION Spec
CONSTANTS
    Forms = {"flat", "db", "wide", "packed", "broken"}
    Passthrough = "flat"
    Legible <- MCLegible
    Unit <- MCUnit
    Stored <- MCStored
    Header <- MCHeader
    Celled <- MCCelled
    Opens <- MCOpens
    Archives <- MCArchives
INVARIANTS TypeOK LayoutSound Delivered
PROPERTY ImplementsMemberwise
CHECK_DEADLOCK FALSE
