\* Two people on one page, two readings under way at once, a withdrawal each.
CONSTANTS
    Users = {u1, u2}
    Loads = {l1, l2}
    MaxRows = 1
    NoValue = NoValue

SPECIFICATION Spec
SYMMETRY Anyone
CONSTRAINT Alone

INVARIANTS
    OutcomesAreShown
    OwnAccountShown
    NeverOlderAlone
    ColdStartIsBuilt

CHECK_DEADLOCK FALSE
