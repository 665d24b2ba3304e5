CONSTANTS
    k1 = k1
    k2 = k2
    Keys = {k1, k2}
    ZeroKey = ZeroKey
    None = None
    Rent = 2
    CapabilityTypes = {}
    MaxU64 = 3
    Funds <- MCFunds
    Gifts = {2}
    GiftTargets <- MCGiftTargets
    AdminChoices = {k1}
    CertifierChoices = {k2}
    TreasuryChoices = {k1}
    MaxClock = 1
    BondChoices = {2, 3}
    DecayChoices = {1}
    PauseChoices = {TRUE, FALSE}
    MaxDecay = 1
    Profiles = {profile}
    NoProfile = NoProfile
    ChallengeTimeout = 1

SPECIFICATION ReputationSystem


INVARIANTS
    PendingBondPayable
    DisputesMatchVerdicts
    CompletionLogDense
    CompletionIdsOrdered
PROPERTIES
    HistoryKept
    BondLeavesBySettlement
CHECK_DEADLOCK FALSE
