SPECIFICATION Spec
CONSTANTS
    Byte = {"0", "a", "b", "c", "x", "y"}
    Zero = "0"
    UsizeMax = 7
    Buffers <- MCBuffers
    HitLists <- MCHitLists
INVARIANTS EditedExactly Verdict OrderIndependent
CHECK_DEADLOCK FALSE
