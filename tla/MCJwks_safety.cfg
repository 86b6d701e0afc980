\* Three sign-ins over two keys; the cooldown and the least TTL are two ticks.
CONSTANTS
    SignIns = {c1, c2, c3}
    Kids = {k1, k2}
    MaxAges = {0, 9}
    Cooldown = 2
    MinTtl = 2
    MaxTtl = 3
    Horizon = 4
    None = None

SPECIFICATION Spec
SYMMETRY Anyone

INVARIANTS
    IInv
    SingleFetch
    FailuresAreFresh
PROPERTIES
    FetchesSpaced
    RejectedOnFreshKeys

CHECK_DEADLOCK FALSE
