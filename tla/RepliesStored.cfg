\* One check at a time and no failure but the shipped statement, always rejected.
CONSTANTS
    c1 = c1  c2 = c2  j1 = j1  g1 = g1  g2 = g2  k1 = k1  k2 = k2  a1 = a1  a2 = a2
    Company <- OneCompany
    Step <- NoStep
    Sender <- OneSender
    Writer <- NoWriter
    BatchLimit = 2
    MaxTries = 2
    Fault <- NoFault
    Handler <- NoRequest
    Checker <- OneChecker
    Address <- OneAddress
    AddressOf <- OneEach
    OldMessages = 1
    MaxMessages = 2
    ReplySaveAborts = TRUE
    CheckerFault <- NoFault
CHECK_DEADLOCK FALSE
SPECIFICATION FairSpec
PROPERTIES
    ReplyIsStored
