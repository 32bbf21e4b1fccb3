SPECIFICATION Spec
CONSTANTS
    NoInstance = NoInstance
    Engines = {1, 2}
    WithTokenizer = {1}
    InputTokens = 4
    MaxNamespace = 2
    MaxChanges = 3
    DecisionCap = 1
    Levels <- MCLevels
    Rules <- MCRules
PROPERTY
    MissingResidencyNeverRejects
