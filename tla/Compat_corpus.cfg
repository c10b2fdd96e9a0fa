SPECIFICATION Spec
CONSTANTS
    TH_QUARANTINE <- MCQuarantine
    STRUCTURAL_ALLOWLIST <- MCAllowlist
    MinRun = 2
    shannon_entropy <- Distinct
    Worlds <- MCWorlds
    Order <- MCOrder
    JwtValues <- MCJwtValues
INVARIANTS Counted AnchorIsRun UnseenProvidersKept RunRulesLoaded HitsAreGroups ReadFaithfully ExitHonest
CHECK_DEADLOCK FALSE
