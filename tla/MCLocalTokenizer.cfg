SPECIFICATION Spec
CONSTANTS
    None = None
    Clusters = {c1, c2}
    Handlers = {h1, h2}
    Zips = {z1, z2}
    Templates = {t1}
    MaxFiles = 2
    MaxFaults = 2
INVARIANTS
    AssetHasItsZip
    LoneHandlersSucceed
    UploadSurvivesRestart
SYMMETRY Symmetry
