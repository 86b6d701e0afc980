\* A pool of two clients: two requests that hold them must not wait for a third
\* client, nor for each other's key or account row.
CONSTANTS
    Requests = {r1, r2, r3}
    Accounts = {a1}
    Keys = {k1, k2}
    Amounts = {1}
    Dests = {d1}
    Openings = {1}
    NoValue = NoValue
    PoolMax = 2

SPECIFICATION FairSpec

PROPERTY EveryRequestServed

CHECK_DEADLOCK FALSE
