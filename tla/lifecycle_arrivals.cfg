SPECIFICATION LifecycleSpec
CONSTANTS
    Titles = {t1}
    Films = {}
    Users = {u1}
    Admins = {u1}
    Selections = {s1}
    QuotaPerDay = 0
    MaxSends = 1
    MaxLooks = 0
    MaxArrId = 1
    LegacyFailed = {}
    ConfigChoices <- OnlySonarr
    MaxEpisodeJobs = 1
    Passes = {p1}
    Environment = {"crash"}
    EventsSent = {"imported", "file_removed"}
INVARIANTS
    LifecycleTypeOK
    NewsReachesTheAsker
    AuditIsTrue
