CONSTANTS
    c1 = c1
    c2 = c2
    c3 = c3
    r1 = r1
    r2 = r2
    Calls = {c1, c2, c3}
    Runs = {r1, r2}
    RunOf <- TwoRuns
    Tables = {"runs"}
    Marts = {"mart"}
    Artifacts = {}
    Status = "run_status_events"
    Manifest = "run_manifest"
    NoFile = NoFile
    Torn = Torn
    Backend = "local"
    SingleWriter = TRUE
    Faults = {"error", "interrupt", "crash"}
SPECIFICATION Spec
INVARIANTS TypeOK CommittedRunComplete RefusedOnlyIfCommitted CatalogNeverDangles
PROPERTIES CommittedRunImmutable ImplementsArchive
SYMMETRY FirstTwoCalls
