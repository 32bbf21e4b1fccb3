CONSTANTS
    Engines = {e1, e2}
    Ranks = {0}
    Tiers = {"gpu", "cpu"}
    RequestKeys = {r1, r2}
    EngineKeys = {k1, k2}
    MaxList = 2
    BlockSize = 4
    MaxQuery = 3
SYMMETRY Keys
SPECIFICATION Spec
INVARIANTS
    IndexConsistent
    QueryIsLongestHeldPrefix
PROPERTIES
    ImplementsPromise
    BridgesGoWithBlocks
CHECK_DEADLOCK FALSE
