\* A token naming an unknown key forces a fetch, which fails; so does the next.
CONSTANTS
    SignIns = {c1, c2, c3}
    Kids = {k1, k2}
    MaxAges = {0, 9}
    Cooldown = 2
    MinTtl = 2
    MaxTtl = 3
    Horizon = 4
    None = None

SPECIFICATION Spec
SYMMETRY Anyone

INVARIANT ForcedFetchesSpaced

CHECK_DEADLOCK FALSE
