CONSTANTS
    a1 = a1
    a2 = a2
    a3 = a3
    x1 = x1
    x2 = x2
    Appenders = {a1, a2}
    Exporters = {x1, x2}
    Head = {manifest}
    manifest = manifest
    martFile = martFile
    Tail = {martFile}
    Statuses = {"CANDIDATE", "VALIDATED", "OFFICIAL", "SUPERSEDED", "REJECTED"}
    NoStatus = NoStatus
    Events <- SomeEvents
    Initial <- FirstEvent
    NoFile = NoFile
    NoEvent = NoEvent
    SingleWriter = FALSE
    InOrder = FALSE
SPECIFICATION ExportSpec
INVARIANTS ExportTypeOK HistoryReachable VerifiedIsTheRun ExportIsCurrent
PROPERTIES LostToOverwriteOnly
