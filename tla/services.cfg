SPECIFICATION Spec
CONSTANTS
    Process = {p1, p2, p3}
    NoPid = NoPid
    Message = {m1, m2}
    Nothing = Nothing
    QueueSize = 3
    Task = {t1, t2}
    Left = {t2}
    Spooler = {s1, s2}
    NoTask = NoTask
    Writer = Writer
    Nobody = Nobody
    MaxTrouble = 1
    Member = {1, 2, 3}
    Arbiter = {1}
    Quorum = 2
    None = None
    MaxFaults = 1
    Backend = {b1, b2, b3}
    NoBackend = NoBackend
    Session = {e1, e2}
    Heavy = {b2}
    Watched = b1
    MaxRetries = 1
CHECK_DEADLOCK FALSE
INVARIANTS
    LocksAreSound
    TasksRunProperly
    OneLord
    NodesAreSound
    FairPicks
PROPERTIES
    QueueIsDeque
    EveryTaskEnds
