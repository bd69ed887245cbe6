\* The daily budget: batches of two, a budget of one.
CONSTANTS
    c1 = c1  c2 = c2  c3 = c3  w1 = w1  w2 = w2  None = None
    Company <- ThreeCompanies
    Worker <- OneWorker
    Fault <- NoFault
    Handler <- Automatic
    BatchSize = 2
    MaxPerDay = 1
    MaxRetry = 3
    MaxRows = 3
    SaveSentAborts = FALSE
SYMMETRY CompanySymmetry
CHECK_DEADLOCK FALSE
SPECIFICATION Spec
INVARIANTS
    CapExceededByLessThanABatch
