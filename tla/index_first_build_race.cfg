SPECIFICATION Spec
CONSTANTS
    Builds = {b1, b2}
    MaxIndexes = 5
    Environment = {"early_cron"}
INVARIANT
    PromotedIsWhole
