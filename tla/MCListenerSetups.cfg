CONSTANTS
    Engines = {e1}
    Ranks = {0}
    Tiers = {"gpu", "cpu"}
    RequestKeys <- MCPair
    EngineKeys <- MCEngineKeys
    MaxList = 2
    BlockSize = 4
    Blocks <- MCPair
    QueueCap = 2
    Setups <- MCSetups
SPECIFICATION FairLSpec
PROPERTIES
    Converges
    DrivesTheIndex
CHECK_DEADLOCK FALSE
