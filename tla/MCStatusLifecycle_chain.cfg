CONSTANTS
    a1 = a1
    a2 = a2
    a3 = a3
    a4 = a4
    Appenders = {a1, a2, a3, a4}
    Statuses = {"CANDIDATE", "VALIDATED", "OFFICIAL", "SUPERSEDED", "REJECTED"}
    NoStatus = NoStatus
    Events <- Promotions
    Initial <- FirstEvent
    NoFile = NoFile
    NoEvent = NoEvent
    SingleWriter = TRUE
    InOrder = TRUE
SPECIFICATION Spec
INVARIANTS HistoryIsChain EventsReadable
