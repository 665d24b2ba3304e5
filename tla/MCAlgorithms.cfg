CONSTANTS
    WordBits = 3
    PeriodBits = 2
    SafeBits = 2
    DecayPeriods = {1, 2}
    LocalTimes = {0}
    MaxCompletions = 3
    LastTime = 7
    Nothing = Nothing
    o1 = o1
    Taop = Taop
    System = System
    Others = {o1}
    LogWord = LogWord
    IdLength <- MCIdLength
    DataLengths = {50, 110}
    TextLengths <- MCTextLengths
    LogLimit = 10000
    MaxDepth = 4
    MaxEvents = 3
    MaxLines = 9
    Bond = 5
    CapabilityBond = 7
    StakeUnit = 2
    DiversityWeight = 2
    Period = 3
    Sybils = 2
    AttestsPerSybil = 3
    TargetScore = 5
    AttestsPerDay = 2
    Horizons = {1, 4}
    RingSize = 3
    HonestAgents = 4
    HonestRatings = 2
    ReciprocityPercent = 80
    CoreThreshold = 2

SPECIFICATION Spec

INVARIANTS
    ScoreWasRight
    WebMathAgrees
    EventsExact
    LedgerBalanced
    TargetReachedThenLost
    KCoreExact
    RingCaught
CHECK_DEADLOCK FALSE
