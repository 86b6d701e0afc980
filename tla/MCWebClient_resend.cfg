\* A reply is lost, the session ends, and the user signs in and submits again.
CONSTANTS
    Requests = {r1, r2, r3}
    Accounts = {a1}
    Keys = {k1, k2, k3}
    Amounts = {1}
    Dests = {d1, d2}
    Openings = {1, 2}
    NoValue = NoValue
    Account = a1
    MaxAttempts = 3
    MaxSessions = 2

SPECIFICATION WebSpec
SYMMETRY Anyone

INVARIANT ChargedOncePerAttempt

CHECK_DEADLOCK FALSE
