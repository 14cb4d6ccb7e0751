SPECIFICATION Spec
CONSTANTS
    Callers = {c1, c2, c3}
    Limit = 2
    Buckets = 2
    BudgetMs = 1
    ContendedMs = 2
    SoloBudgetMs = 3
    RefuseAtMs = 2
    MaxTarpits = 1
    MaxKeys = 2
    Costs = {1}
    MaxClock = 4
    MaxPending = 1
SYMMETRY CallerSymmetry
INVARIANTS
    LimitsTypeOK
    BurstBounded
    MeterIsHonest
    AloneNobodyWaits
