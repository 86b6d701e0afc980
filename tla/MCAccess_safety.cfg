\* Three calls of two browsers; two people, one of whom may be removed and return.
CONSTANTS
    Calls = {c1, c2, c3}
    Browsers = {b1, b2}
    Subs = {s1, s2}
    Users = {u1, u2}
    Accounts = {a1, a2}
    Ttl = 1
    Horizon = 1
    MaxRestarts = 1
    Anonymous = Anonymous
    Cleared = Cleared
    Kept = Kept
    NoValue = NoValue

SPECIFICATION Spec
SYMMETRY Anyone

INVARIANTS
    IInv
    MovedByOwner
    SessionsNamePairs
    MeShowsTheSessionsAccount
PROPERTIES
    EndedSessionsMoveNothing
    ClearedForGood

CHECK_DEADLOCK FALSE
