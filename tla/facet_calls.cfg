SPECIFICATION FairSpec
CONSTANTS
    radarr = radarr
    tmdb = tmdb
    cast = cast
    trailer = trailer
    t1 = t1
    c1 = c1
    Titles = {t1}
    Plugins = {radarr, tmdb}
    Answers <- TwoAddons
    Upgraded = {tmdb}
    Others = {c1}
    CollectionOf <- OneFilm
    Slots = 1
    QueueLimit = 1
    MaxFetches = 2
INVARIANTS
    FacetsTypeOK
    PoliteUpstream
    CallsAreCarried
PROPERTIES
    DrawnStays
    PollsEnd
