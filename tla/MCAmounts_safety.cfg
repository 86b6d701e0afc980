\* Doubles of four bits between 1/16 and 3840, texts of up to six symbols.
CONSTANTS
    Digits = {0, 1, 5, 9}
    MaxLength = 6
    MaxWhole = 5
    Places = 4
    Precision = 4
    MinExp <- Lowest
    MaxExp = 8
    MaxFraction = 2
    TailFit = 1

SPECIFICATION Spec

INVARIANTS
    StoredIsTyped
    CaughtHereFirst
    ExactIsSent
    NormalForm
    ShownTruly

CHECK_DEADLOCK FALSE
