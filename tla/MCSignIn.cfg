\* Three visits of two users, one of whom changes names, over a pool of two
\* clients.
CONSTANTS
    Visits = {v1, v2, v3}
    Subs = {s1, s2}
    Names = {n1, n2}
    NoValue = NoValue
    Failed = Failed
    PoolMax = 2
    Guest = s2
    GuestName = n1

SPECIFICATION FairSpec
CONSTRAINT OneGuest

INVARIANTS
    OneAccountEach
    NoAccountConflict
PROPERTIES
    ImplementsDirectory
    EveryVisitEnds

CHECK_DEADLOCK FALSE
