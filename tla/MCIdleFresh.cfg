CONSTANTS
    Engines = {e1}
    Ranks = {0}
    Tiers = {"gpu"}
    RequestKeys <- MCBlocks
    EngineKeys <- MCEngineKeys
    MaxList = 2
    BlockSize = 4
    Blocks <- MCBlocks
    QueueCap = 2
    Setups <- MCIdle
SPECIFICATION LSpec
INVARIANTS
    IdleFreshIsAuthoritative
CHECK_DEADLOCK FALSE
