SPECIFICATION Spec
CONSTANTS
    Titles = {t1, t2}
    Films = {t1, t2}
    Users = {u1, u2}
    Admins = {u2}
    Selections = {s1}
    QuotaPerDay = 1
    MaxSends = 2
    MaxLooks = 0
    MaxArrId = 2
    LegacyFailed = {}
    ConfigChoices <- BothServices
    MaxEpisodeJobs = 0
    Environment = {"crash", "midnight", "hand"}
INVARIANTS
    ArrIdIsOurs
    QuotaKept
PROPERTIES
    OnlyOursUnmonitored
    FirstAskerKeepsCredit
