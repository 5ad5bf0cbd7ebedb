SPECIFICATION Spec
CONSTANTS
    Modulus = 127
    CHUNK_TREE_ARITY = 3
    Challenges <- MCChallenges
    Beta <- MCBeta
    Program <- MCProgram
    PcSize = 4
    OpSize = 4
    GasSize = 2
    AccSize = 4
    ExclusiveOr <- MCExclusiveOr
    HashToField <- MCHashToField
    Jobs <- MCJobs
    RoundLimit = 2
    ChunkLen = 2
    MaxForeign = 1
    Missing = Missing
    None = None
CHECK_DEADLOCK FALSE
INVARIANTS
    TypeOK
    SketchStreams
    OpeningsBind
    HonestVerifies
    OpensCommitted
    AcceptedCommitted
    AuditExact
