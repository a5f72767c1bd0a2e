CONSTANTS
    swap = swap
    exotic = exotic
    Factors = {swap, exotic}
    Horizon <- SomeHorizons
    LastDay = 3
    Lookback = 2
    WithCalendar = TRUE
    Closed = {}
    ShortMax = 20
    ShortThreshold = 2
    LongThreshold = 1
    NoDay = NoDay
    Feed <- SomeFeed
    MaxObservations = 3
    SomeControls <- TheControls
    SomeEvidence <- TheEvidence
    SomePayloads <- ThePayloads
    Periods = {"now", "then"}
    Engine <- TheEngine
    MaxArtifacts = 2
    Regimes = {"npr", "eu"}
    TypeABRegimes = {"npr"}
    None = None
SPECIFICATION Spec
INVARIANTS TypeOK CountIsOfDates FiguresAreOfTheRun ApprovalReachesCapital
