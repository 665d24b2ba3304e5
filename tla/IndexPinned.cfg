CONSTANTS
    k1 = k1
    k2 = k2
    t1 = t1
    t2 = t2
    Keys = {k1, k2}
    ZeroKey = ZeroKey
    None = None
    Rent = 2
    CapabilityTypes = {t1, t2}
    MaxU64 = 3
    Funds <- MCFunds
    Gifts = {2}
    GiftTargets <- MCGiftTargets
    MaxClock = 0
    AdminChoices = {k1}
    CertifierChoices = {k2}
    TreasuryChoices = {k1}
    BondChoices = {2}
    DecayChoices = {1}
    PauseChoices = {TRUE, FALSE}
    MaxDecay = 1
    IndexCapacity = 2
    CapabilityBonds = {1, 2, 4}
    Penalties = {1, 2, 4}

SPECIFICATION CapabilitySystem

INVARIANT
    FullIndexReclaimable
CHECK_DEADLOCK FALSE
