SPECIFICATION Spec
CONSTANTS
    Threads = {th1}
    Addresses = {a1}
    Null = Null
    Freed = Freed
    Shell = Shell
    MaxPipelines = 1
    AllocationFails = FALSE
    th1 = th1
    a1 = a1
INVARIANTS
    FailureLeavesMessage
