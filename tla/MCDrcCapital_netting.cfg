CONSTANTS
    l1 = l1
    l2 = l2
    s1 = s1
    s2 = s2
    s3 = s3
    Positions = {l1, l2, s1, s2, s3}
    Seniorities = {"SENIOR_DEBT", "PSE", "NON_SENIOR_DEBT", "EQUITY"}
    Rank <- SeniorityRank
    NoLayer = NoLayer
    Unit = 1
    Books <- ContractBooks
    Arrivals <- BothWays
    Qualities = {"INVESTMENT_GRADE", "SPECULATIVE_GRADE"}
    RiskWeight <- Weights
    Lgd <- LgdQuarters
    Floor = 1
    Full = 4
    NoAmount = NoAmount
    Contracts <- GradedContracts
    Others <- OtherObligors
    Refused = Refused
SPECIFICATION CapitalSpec
INVARIANTS TypeOK NoOffsetLeft OffsetIsMaximal RecordsReconcile ChargeIsOfBestNetting HedgedPairIsFree
