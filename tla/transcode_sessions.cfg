SPECIFICATION Spec
CONSTANTS
    film = film
    remux = remux
    k3 = k3
    SessionIds = {s1, s2}
    Keys = {film, remux, k3}
    Expensive = {remux, k3}
    Viewers = {v1, v2}
    LastSegment <- OneLongFilm
    MaxSessions = 2
    ExpensiveSessions = 1
    SegmentConcurrency = 1
    SegmentCache = 3
    ReadAheadCheap = 1
    ReadAheadExpensive = 1
    NoSession = NoSession
INVARIANTS
    SessionsTypeOK
    TableIsSound
    FfmpegBudget
    DiskIsHonest
    AheadKeptUp
PROPERTIES
    SharedStreamSurvives
    RefusedForTheLiving
SYMMETRY
    SessionSymmetry
