\* Each of the services around the queue, by itself.
CONSTANTS
    p1 = p1  p2 = p2
    Focus <- AllServices
    Account = {a1, a2}
    NoAccount = NoAccount
    Caller <- Two
    Limits = {0, 1}
    Generator <- Two
    GiveUpAfter = 1
    MaxVersions = 2
    Planner <- Two
    Plan = {1, 2}
    Starts = {0, 1, 2, 3, 4, 5, 6}
    Counts = {5, 13}
    Paces = {1, 2}
    Reader <- Two
    MaxWrites = 3
    Agent <- Two
    Scrape = {s1, s2, s3}
    MaxPages = 2
    MaxTwice = 1
    Run <- Two
    Towns = 1
    TownBatch = 1
    Strikes = 2
    DailyLimits = {0, 1}
    MaxTrouble = 1
    Visit <- Two
    Link = {1, 2}
SYMMETRY TwoSymmetry
CHECK_DEADLOCK FALSE
SPECIFICATION ServicesSpec
INVARIANTS
    ServicesTypeOK
    BudgetKept
    OnlyReadTextIsSent
    BusinessDaysInOrder
    MondayCounted
    OwnWriteSeen
    
    OpportunityBacked
    PagesBounded
    SearchesWithinBudget
    ServedWhileActive
    OneLinkWorks
PROPERTIES
    PlannedIsQueued
    StageMovesForward
