\* Three requests over two accounts and two keys, so that a key is scoped to its
\* account and an account may be unknown; a balance that a request may exhaust
\* exactly; a pool that makes the third request wait.
CONSTANTS
    Requests = {r1, r2, r3}
    Accounts = {a1, a2}
    Keys = {k1, k2}
    Amounts = {1, 2}
    Dests = {d1}
    Openings = {2}
    NoValue = NoValue
    PoolMax = 2

SPECIFICATION Spec
SYMMETRY Anyone

INVARIANTS
    IInv
    NoOverdraft
    Conservation
    OneRowPerKey
    AnswersAreDurable
    NoIdempotencyConflict
PROPERTY ImplementsLedger

CHECK_DEADLOCK FALSE
