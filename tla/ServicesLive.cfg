\* What the caches and the municipality search come to in the end.
CONSTANTS
    p1 = p1  p2 = p2
    Focus = {"caches", "intake"}
    Account = {a1}
    NoAccount = NoAccount
    Caller = {p1}
    Limits = {1}
    Generator = {p1}
    GiveUpAfter = 1
    MaxVersions = 1
    Planner = {p1}
    Plan = {1}
    Starts = {0}
    Counts = {1}
    Paces = {1}
    Reader <- Two
    MaxWrites = 3
    Agent = {p1}
    Scrape = {s1}
    MaxPages = 1
    MaxTwice = 1
    Run = {p1}
    Towns = 2
    TownBatch = 1
    Strikes = 3
    DailyLimits = {0, 1}
    MaxTrouble = 1
    Visit = {p1}
    Link = {1}
CHECK_DEADLOCK FALSE
SPECIFICATION FairServices
PROPERTIES
    CacheCatchesUp
    TownsAreFinished
