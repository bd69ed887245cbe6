\* Overlapping checks of one mailbox, whatever fails, the storing of a reply included.
CONSTANTS
    c1 = c1  c2 = c2  j1 = j1  g1 = g1  g2 = g2  k1 = k1  k2 = k2  a1 = a1  a2 = a2
    Company <- TwoCompanies
    Step <- NoStep
    Sender <- OneSender
    Writer <- NoWriter
    BatchLimit = 2
    MaxTries = 2
    Fault <- NoFault
    Handler <- NoRequest
    Checker <- TwoCheckers
    Address <- TwoAddresses
    AddressOf <- OneEach
    OldMessages = 0
    MaxMessages = 3
    ReplySaveAborts = FALSE
    CheckerFault <- CheckingFaults
CHECK_DEADLOCK FALSE
SPECIFICATION Spec
INVARIANTS
    NoReplyPassedOver
