SPECIFICATION LifecycleFairSpec
CONSTANTS
    Titles = {t1}
    Films = {t1}
    Users = {u1}
    Admins = {}
    Selections = {s1}
    QuotaPerDay = 0
    MaxSends = 1
    MaxLooks = 0
    MaxArrId = 1
    LegacyFailed = {}
    ConfigChoices <- OnlyRadarr
    MaxEpisodeJobs = 0
    Passes = {p1}
    Environment = {"crash", "hand"}
    EventsSent = {"manual_interaction"}
PROPERTY
    ManualImportEnds
