SPECIFICATION FairSpec
CONSTANTS
    Titles = {t1}
    Films = {}
    Users = {u1}
    Admins = {}
    Selections = {s1}
    QuotaPerDay = 0
    MaxSends = 2
    MaxLooks = 0
    MaxArrId = 1
    LegacyFailed = {t1}
    ConfigChoices <- AnyService
    MaxEpisodeJobs = 2
    Environment = {"crash", "hand"}
INVARIANTS
    TypeOK
    QueuedHasBudget
    OwedToWorker
    EpisodeMirrorHonest
PROPERTY
    AsksSettle
