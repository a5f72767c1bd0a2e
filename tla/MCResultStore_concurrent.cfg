CONSTANTS
    c1 = c1
    c2 = c2
    c3 = c3
    r1 = r1
    r2 = r2
    Calls = {c1, c2}
    Runs = {r1}
    RunOf <- OneRun
    Tables = {"runs"}
    Marts = {}
    Artifacts = {"artifact"}
    Status = "run_status_events"
    Manifest = "run_manifest"
    NoFile = NoFile
    Torn = Torn
    Backend = "local"
    SingleWriter = FALSE
    Faults = {"error"}
SPECIFICATION FairSpec
INVARIANTS OneWinnerPerRun
PROPERTIES EveryCallEnds
