SPECIFICATION Spec
CONSTANTS
    Threads = {th1, th2, th3}
    Addresses = {a1, a2}
    Null = Null
    Freed = Freed
    Shell = Shell
    MaxPipelines = 3
    AllocationFails = TRUE
    th1 = th1
    th2 = th2
    th3 = th3
    a1 = a1
    a2 = a2
SYMMETRY Symmetry
INVARIANTS
    NothingFreedInUse
    LastErrorIsOwn
