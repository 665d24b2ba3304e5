CONSTANTS
    k1 = k1
    k2 = k2
    Keys = {k1, k2}
    ZeroKey = ZeroKey
    None = None
    Rent = 2
    CapabilityTypes = {}
    MaxU64 = 2
    Funds <- MCFunds
    Gifts = {2}
    GiftTargets <- MCGiftTargets
    AdminChoices = {k1}
    CertifierChoices = {k2}
    TreasuryChoices = {k1}
    MaxClock = 0
    BondChoices = {2, 3}
    DecayChoices = {1}
    PauseChoices = {TRUE, FALSE}
    MaxDecay = 1
    Profiles = {}
    NoProfile = NoProfile
    ChallengeTimeout = 1

SPECIFICATION ReputationSystem


INVARIANT
    DonationsNeverStranded
CHECK_DEADLOCK FALSE
