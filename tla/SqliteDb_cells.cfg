SPECIFICATION FairSpec
CONSTANTS
    Columns = {"text", "unique", "json"}
    Scannable <- MCScannable
    Unique <- MCUnique
    Blocks = {"s1", "s2", "plain", "zero"}
    Secrets = {"s1", "s2"}
    Zero = "zero"
    Stray <- MCStray
    Databases <- MCDatabases
INVARIANTS Located AllOrNothing Purged
PROPERTIES ImplementsCellwise CopyRemoved
CHECK_DEADLOCK FALSE
