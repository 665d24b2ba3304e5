CONSTANTS
    k1 = k1
    k2 = k2
    Keys = {k1, k2}
    ZeroKey = ZeroKey
    None = None
    Rent = 2
    CapabilityTypes = {}
    MaxU64 = 1
    Funds <- MCFunds
    Gifts = {}
    GiftTargets = {}
    MaxClock = 0
    AdminChoices = {k1, k2, ZeroKey}
    CertifierChoices = {k2, ZeroKey}
    TreasuryChoices = {k1, k2}
    BondChoices = {1, 2}
    DecayChoices = {0, 1, 2, 3}
    PauseChoices = {FALSE}
    MaxDecay = 2
    Attempts = 2
    ExpectedAuthority = k1
    Builds = {documented, other}
    ExpectedBuild = documented
    Absent = Absent
    ReadKeys = {a, b}
    FirstKey = a
    TTL = 1
    Timeout = 2
    MaxTime = 6
    MaxReads = 2
    MaxInputs = 3

SPECIFICATION Spec

INVARIANTS
    ConfigInRange
    SteadyDeviationFailsCheck
    DescriptorNamesTreasury
    ReadsTypeOK
    ShownBelongsToSubmitted
    FreshWithinBounds
    PanelTellsTheState
PROPERTIES
    AdminHandover
    LoadingEnds
CHECK_DEADLOCK FALSE
