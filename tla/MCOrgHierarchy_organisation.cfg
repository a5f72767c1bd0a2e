CONSTANTS
    top = top
    bank = bank
    branch = branch
    desk = desk
    book = book
    Ids = {top, bank, branch, desk, book}
    Versions = {"v1", "v2"}
    NoNode = NoNode
    Dates = {1, 2}
    Components = {"CVA", "IMA"}
    AllComponents = "all"
    Organisations <- SomeOrganisations
    RowSets <- SomeRowSets
    Groupings <- SomeGroupings
    Limits = {1, 2}
SPECIFICATION Spec
INVARIANTS TypeOK RollUpAddsUp TraceAgrees DetailReconciles
