\* Lost answers, failed transactions and crashes against retries, recovered
\* claims and removed rows.
CONSTANTS
    c1 = c1  c2 = c2  c3 = c3  w1 = w1  w2 = w2  None = None
    Company <- OneCompany
    Worker <- OneWorker
    Fault <- AllButOverrun
    Handler <- AskDelete
    BatchSize = 2
    MaxPerDay = 1
    MaxRetry = 1
    MaxRows = 3
    SaveSentAborts = FALSE
CHECK_DEADLOCK FALSE
SPECIFICATION FairSpec
INVARIANTS
    TypeOK
    OnceUnlessUnrecorded
    FailedHasLetter
PROPERTIES
    ClaimIsResolved
