SPECIFICATION Spec
CONSTANTS
    Workers = {w1, w2}
    Clients = {c1, c2, c3}
    Closers = {s1, s2}
    Tasks = {t1, t2, t3, t4}
    NoTask = NoTask
    w1 = w1
    w2 = w2
    c1 = c1
    c2 = c2
    c3 = c3
    s1 = s1
    s2 = s2
    t1 = t1
    t2 = t2
    t3 = t3
    t4 = t4
    queue_capacity = 2
    full_policy = "reject_newest"
    shutdown_policy = "drain"
    SpuriousWakeups = TRUE
SYMMETRY Symmetry
INVARIANTS
    TypeOK
    StatsBalance
    JoinedMeansDrained
