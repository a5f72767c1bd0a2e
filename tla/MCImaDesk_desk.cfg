CONSTANTS
    Window = 3
    MinimumHistory = 3
    PlaWindow = 3
    PlaMinimumHistory = 3
    Levels = {975, 990}
    Limits <- SomeLimits
    KsGreen = 34
    KsAmber = 67
    RhoGreen = 80
    RhoAmber = 50
    RedZone = 2
    Schedule <- SomeSchedule
    RedMultiplier = 200
    Charges <- SomeCharges
    Rows <- SomeRows
    PlaFeeds <- SomeFeeds
    Setups <- SomeSetups
    LastDay = 5
    MaxRows = 2
    Missing = Missing
    NoRow = NoRow
    NoCalendar = NoCalendar
    None = None
SPECIFICATION Spec
INVARIANTS TypeOK TraceMatchesHistory SilenceNeverHelps AlignedMeansSameDays
PROPERTIES RecoveryNeedsAgeing
CHECK_DEADLOCK FALSE
