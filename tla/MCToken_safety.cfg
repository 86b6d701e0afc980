\* One tab; clocks up to one second further apart than the allowance, and time
\* for a nonce and a token to run out and a second page to be served.
CONSTANTS
    Tabs = {t1}
    Secrets = {s1}
    Clients = {c1, c2}
    Skew = 1
    NonceTtl = 3
    TokenLife = 2
    MaxDrift = 2
    MaxTime = 6
    NoValue = NoValue

SPECIFICATION Spec
SYMMETRY Alike

INVARIANTS
    AcceptedInTime
    GenuineAccepted
    ReloadedForTheNonce

CHECK_DEADLOCK FALSE
