CONSTANTS
    None = None
    NoData = NoData
    Idle = Idle
    Backends = {1, 2}
    Virtual = {2}
    Tabs = {1}
    Saves = {1, 2}
    Settings = {"s1", "s2"}
    Endpoints = {"e"}
    Templates = {"h1"}
    MaxEvents = 2
    Start <- MCProfiles
    KVClusters = {"a", "b"}
    Models = {1, 2}
    ClusterOf <- MCClusterOf
    Number <- MCNumber
    Ratios = {0, 50}
    PolicyStart <- MCPolicyStart
    MaxForms = 1
    PreviewStart <- MCPreviewStart
    Changed <- MCChanged
    Options = {"a", "b", "c"}
    Urls = {"u"}
    Tokens = {"k1"}
    Names = {}
    Profiles = {"p"}
    Kinds <- MCKinds
    FeedCap = 2
    QueueCap = 2
    EventsPerPage = 1
    FeedEvents = 1
    MaxClicks = 1
    ClusterIds = {1, 2}
    Home <- MCHome
    Ids = {"e"}
    EngineStart <- MCEngineStart
    Selections = {{"a"}, {"a", "b"}}
    Times = {10, 11, 20}
    Judgments <- MCOutcomes
    DecisionCap = 2
    Latest = 1
    MaxDecisions = 3
    MaxFailures = 1
    MaxPolls = 1
    SimulatorClusters = {"a"}
    Texts = {"p", "q"}
    ProfileAnswers <- MCAnswers
    SimulatorEvents = 3
SPECIFICATION MCSpec
INVARIANTS
    ProfileSurvives
    ReadYourWrites
    ConfigSurvives
    OnlySelected
    RegisteredFits
    OneInput
    NewestFirst
    PreviewTells
PROPERTIES
    NoSilentBump
    UntouchedKeepsVerdicts
    CreatedDecides
    TokenSurvives
    EventuallyFresh
    EventuallyShown
CHECK_DEADLOCK FALSE
