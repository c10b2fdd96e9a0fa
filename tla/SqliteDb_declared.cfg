SPECIFICATION Spec
CONSTANTS
    Columns = {"text", "unique", "json"}
    Scannable <- MCScannable
    Unique <- MCUnique
    Blocks = {"s1", "s2", "plain", "zero"}
    Secrets = {"s1", "s2"}
    Zero = "zero"
    Stray <- MCStray
    Databases <- JsonDatabases
INVARIANT NothingLeft
CHECK_DEADLOCK FALSE
