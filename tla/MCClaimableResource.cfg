SPECIFICATION FairSpec
CONSTANTS
    Claimers = {c1, c2, c3}
    Claims = {k1, k2, k3}
    None = none
INVARIANTS
    ClaimsInv
    OrderInv
PROPERTIES
    EventuallyGranted
