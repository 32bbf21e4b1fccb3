CONSTANTS
    Engines = {e1}
    Ranks = {0}
    Tiers = {"gpu"}
    RequestKeys <- MCBlocks
    EngineKeys <- MCEngineKeys
    MaxList = 2
    BlockSize = 4
    Blocks <- MCBlocks
    QueueCap = 1
    Setups <- MCFaulty
SPECIFICATION LSpec
INVARIANTS
    LossIsTold
    CaughtUpIsExact
    BridgesAndHoldingsAgree
CHECK_DEADLOCK FALSE
