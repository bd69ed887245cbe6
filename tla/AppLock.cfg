\* One lease: two processes, three concurrent calls, one TTL.
CONSTANTS
    i1 = i1  i2 = i2
    r1 = r1  r2 = r2  r3 = r3
    NoRow = NoRow
    Instance <- Instances
    Run <- ThreeRuns
    Ttl <- OneTtl
SPECIFICATION FairSpec
INVARIANTS
    TypeOK
    ExclusionUnlessOverrun
    FreshExclusionAcrossProcesses
PROPERTIES
    OrphanIsTakenOver
