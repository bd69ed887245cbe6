\* Consents, approvals, opt-outs and manual requests, with dead letters that get
\* lost.
CONSTANTS
    c1 = c1  c2 = c2  c3 = c3  w1 = w1  w2 = w2  None = None
    Company <- OneCompany
    Worker <- OneWorker
    Fault <- LogOrRecord
    Handler <- NoMark
    BatchSize = 1
    MaxPerDay = 1
    MaxRetry = 1
    MaxRows = 2
    SaveSentAborts = FALSE
CHECK_DEADLOCK FALSE
SPECIFICATION Spec
INVARIANTS
    ColdOnlyByHand
    OptOutHonoured
PROPERTIES
    KeepsPromise
