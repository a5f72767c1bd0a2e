CONSTANTS
    c1 = c1
    c2 = c2
    c3 = c3
    r1 = r1
    r2 = r2
    Calls = {c1, c2, c3}
    Runs = {r1}
    RunOf <- OneRun
    Tables = {"runs", "capital_nodes"}
    Marts = {"mart"}
    Artifacts = {"artifact"}
    Status = "run_status_events"
    Manifest = "run_manifest"
    NoFile = NoFile
    Torn = Torn
    Backend = "local"
    SingleWriter = TRUE
    Faults = {"late_error"}
SPECIFICATION Spec
PROPERTIES CommittedRunImmutable
