SPECIFICATION Spec
CONSTANTS
    NoInstance = NoInstance
    Engines = {1, 2}
    WithTokenizer = {1}
    InputTokens = 4
    MaxNamespace = 2
    MaxChanges = 3
    DecisionCap = 1
    Levels <- MCLevels
    Rules <- MCRules
INVARIANTS
    MoreResidencyNeverRejects
    TiesDoNotDecide
    UncertaintyRejectsOnDemand
PROPERTIES
    FreshnessIsHonoured
    VersionCoversReads
    TargetWasEligible
