SPECIFICATION LifecycleSpec
CONSTANTS
    Titles = {t1}
    Films = {}
    Users = {u1}
    Admins = {}
    Selections = {s1}
    QuotaPerDay = 0
    MaxSends = 1
    MaxLooks = 9
    MaxArrId = 1
    LegacyFailed = {}
    ConfigChoices <- OnlySonarr
    MaxEpisodeJobs = 0
    Passes = {p1}
    Environment = {}
    EventsSent = {}
INVARIANT
    ToldOnce
