\* One name taken with two TTLs, as "municipality" is (1200 s and 600 s).
CONSTANTS
    i1 = i1  i2 = i2
    r1 = r1  r2 = r2  r3 = r3
    NoRow = NoRow
    Instance <- Instances
    Run <- TwoRuns
    Ttl <- TwoTtls
SPECIFICATION Spec
INVARIANTS
    NotDisplacedWithinOwnTtl
