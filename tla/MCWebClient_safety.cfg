\* Up to three submissions, three attempts and two sign-ins.
CONSTANTS
    Requests = {r1, r2, r3}
    Accounts = {a1}
    Keys = {k1, k2, k3}
    Amounts = {1}
    Dests = {d1, d2}
    Openings = {1, 2}
    NoValue = NoValue
    Account = a1
    MaxAttempts = 3
    MaxSessions = 2

SPECIFICATION WebSpec
SYMMETRY Anyone

INVARIANTS
    ChargedOncePerSignIn
    DeclinedMeansNotCharged

CHECK_DEADLOCK FALSE
