\* More connections than pool clients; handlers that take a client twice.
CONSTANTS
    Conns = {c1, c2, c3}
    PoolMax = 1
    MaxTakes = 2
    MaxRequests = 2

SPECIFICATION ProcessSpec

INVARIANTS
    NobodyCutOff

PROPERTIES
    ShutsDown

CHECK_DEADLOCK FALSE
