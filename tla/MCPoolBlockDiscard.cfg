SPECIFICATION FairSpec
CONSTANTS
    Workers = {w1, w2}
    Clients = {c1, c2}
    Closers = {s1, s2}
    Tasks = {t1, t2, t3}
    NoTask = NoTask
    w1 = w1
    w2 = w2
    c1 = c1
    c2 = c2
    s1 = s1
    s2 = s2
    t1 = t1
    t2 = t2
    t3 = t3
    queue_capacity = 2
    full_policy = "block"
    shutdown_policy = "discard_pending"
    SpuriousWakeups = FALSE
INVARIANTS
    AcceptedTaskHasOnePlace
    NobodyStranded
PROPERTIES
    NothingHangs
    StatsFinal
