CONSTANTS
    k1 = k1
    k2 = k2
    Keys = {k1, k2}
    ZeroKey = ZeroKey
    None = None
    Rent = 2
    CapabilityTypes = {"t"}
    MaxU64 = 2
    Funds <- MCFunds
    Gifts = {2}
    GiftTargets <- MCGiftTargets
    MaxClock = 1
    AdminChoices = {k1}
    CertifierChoices = {k2}
    TreasuryChoices = {k1}
    BondChoices = {2}
    DecayChoices = {1}
    PauseChoices = {TRUE, FALSE}
    MaxDecay = 1
    Profiles = {profile}
    NoProfile = NoProfile
    ChallengeTimeout = 1
    IndexCapacity = 1
    CapabilityBonds = {2, 3}
    Penalties = {1, 2}

SPECIFICATION FairSpec

INVARIANTS
    TypeOK
PROPERTIES
    ImplementsEscrow
    DeclaredAccountsOnly
    TimedOutBondReleased
CHECK_DEADLOCK FALSE
