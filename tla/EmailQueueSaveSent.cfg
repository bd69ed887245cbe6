\* The statements that save what was sent, as shipped.
CONSTANTS
    c1 = c1  c2 = c2  c3 = c3  w1 = w1  w2 = w2  None = None
    Company <- OneCompany
    Worker <- OneWorker
    Fault <- NoFault
    Handler <- AllHandlers
    BatchSize = 1
    MaxPerDay = 1
    MaxRetry = 3
    MaxRows = 2
    SaveSentAborts = TRUE
CHECK_DEADLOCK FALSE
SPECIFICATION Spec
INVARIANTS
    SentMailIsRecorded
