CONSTANTS
    c1 = c1  c2 = c2  j1 = j1  g1 = g1  g2 = g2  k1 = k1  k2 = k2  a1 = a1  a2 = a2
    Company <- OneCompany
    Step <- OneStep
    Sender <- OneSender
    Writer <- TwoWriters
    BatchLimit = 1
    MaxTries = 2
    Fault <- SendingFaults
    Handler <- AllRequests
    Checker <- OneChecker
    Address <- OneAddress
    AddressOf <- OneEach
    OldMessages = 1
    MaxMessages = 2
    ReplySaveAborts = FALSE
    CheckerFault <- Rejections
CHECK_DEADLOCK FALSE
SPECIFICATION Spec
INVARIANTS
    TypeOK
    FollowUpOnceUnlessUnrecorded
    WithdrawalHonoured
    OnlySeenTextIsSent
