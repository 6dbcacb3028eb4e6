SPECIFICATION Spec
CONSTANTS
    None = None
    W = 5
    NotLessThan = 3
    Band = 4
    RegistryIndex = 2
    Privates <- MCPrivates
    DefaultCIDR <- MCDefaultCIDR
    DefaultPods <- MCDefaultPods
    DefaultServices <- MCDefaultServices
    Scenarios <- MCScenarios
    Joining <- MCJoining
    OtherHosts <- MCOtherHosts
    Restores <- MCRestores
INVARIANTS
    ReleaseIsSound
    NetworksFit
    RestoreFits
    UpdatesLead
    ValuesKept
CHECK_DEADLOCK FALSE
