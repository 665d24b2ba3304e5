CONSTANTS
    k1 = k1
    k2 = k2
    Keys = {k1, k2}
    ZeroKey = ZeroKey
    None = None
    Rent = 2
    CapabilityTypes = {}
    MaxU64 = 3
    Funds <- MCFunds
    Gifts = {}
    GiftTargets = {}
    AdminChoices = {k1}
    CertifierChoices = {k2}
    TreasuryChoices = {k1}
    MaxClock = 1
    BondChoices = {2}
    DecayChoices = {1}
    PauseChoices = {TRUE, FALSE}
    MaxDecay = 1
    Profiles = {}
    NoProfile = NoProfile
    ChallengeTimeout = 1
    Wallet = k2
    Targets <- MCTargets

SPECIFICATION ToolSystem

INVARIANTS
    ResolveAccountsFresh
    LocalRefusalsFinal
    ReturnedIdNotAhead
    ServedAsAsked
CHECK_DEADLOCK FALSE
