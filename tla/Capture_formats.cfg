SPECIFICATION FairSpec
CONSTANTS
    U64Max = 63
    U32Max = 15
    MaxRecords = 5
    JfrMagic = 60
    JfrHeader = 2
    HprofMagic = 59
    HprofHeader = 2
    IdMax = 2
    PcapMagic = 13
    SHB = 14
    EPB = 12
    BOM = 11
    PcapHeader = 3
    RecordHeader = 1
    BlockHeader = 2
    BlockMin = 3
    EpbFixed = 3
    PerfMagic = 57
    FeatureBits = 2
    CoreMagic = 56
    OddCore = 53
    Align = 2
    PsargsOffset = 1
    PsargsLen = 1
    TarMagic = 55
    SqliteMagic = 54
    HeadMax = 4
    Files <- MCFiles
    Forced = {"jfr", "unknown"}
    Strays <- MCStrays
    MaxHits = 1
    MaxHitLen = 2
INVARIANTS PanicsOnlyWrapped NothingUnscanned FramingApart OwnHitsAccepted RedactedExactly FramingKept SameStructure
PROPERTY Ends
CHECK_DEADLOCK FALSE
