SPECIFICATION RuntimeSpec
CONSTANTS
    Threads = {t1, t2, t3}
    NoThread = none
    AdapterChecks = TRUE
    MaxCalls = 4
    Callers = {w1, w2}
    Keys = {k1, k2, k3}
    Answers = {a1, a2}
    capacity = 2
    MaxLookups = 4
    MaxFailures = 1
    Publishers = {p1, p2}
    Results <- MCResults
    Stages = {"ocr"}
    MaxResults = 2
    MaxSnapshots = 1
    Names = {"a", "b", "link", "up"}
    Dotted = {"up"}
    Climbing = {"up"}
    Escaping = {"link"}
    Contents <- MCContents
    Contracts <- MCContracts
    MaxReplacements = 1
    Pinned = pinned
    Unpinned = unpinned
    Sick = sick
INVARIANTS
    ReadsOwnTensor
    StoppedWaiterLeaves
    ServesWhatWasTested
    SnapshotCoversEndedCalls
PROPERTIES
    ImplementsRecency
    StoppedCallsEnd
