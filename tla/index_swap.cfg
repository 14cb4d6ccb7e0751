SPECIFICATION FairSpec
CONSTANTS
    Builds = {b1, b2}
    MaxIndexes = 5
    Environment = {"power", "kill"}
INVARIANTS
    SwapTypeOK
    PromotedIsWhole
    SomethingToServe
    EngineIsOnDisk
PROPERTIES
    ServesAgain
    KeepsPromise
