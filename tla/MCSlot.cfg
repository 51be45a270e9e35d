\* No symmetry: it would not be sound for the liveness property.
SPECIFICATION FairSpec
CONSTANTS
    Readers = {r1, r2}
    Reloaders = {t1, t2}
    MaxLoads = 4
    r1 = r1
    r2 = r2
    t1 = t1
    t2 = t2
INVARIANTS
    NothingFreedInUse
    OneSpareModel
PROPERTIES
    ImplementsRegister
    ReloadsSettle
