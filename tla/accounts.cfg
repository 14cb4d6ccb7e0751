SPECIFICATION Spec
CONSTANTS
    Users = {u1, u2}
    Invites = {i1, i2}
    PlexAccounts = {p1, p2}
    Ceremonies = {c1}
    Calls = {k1, k2}
    Overlapping = {"link"}
    Crowd = 1
    MaxKeys = 1
    OpenSignup = TRUE
    Nobody = Nobody
INVARIANTS
    AccountsTypeOK
    OneAccountPerInvite
    FirstRunHappensOnce
PROPERTIES
    NoSilentRelink
SYMMETRY
    AccountSymmetry
