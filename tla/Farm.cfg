SPECIFICATION Spec
CONSTANTS
    u1 = u1
    u2 = u2
    p1 = p1
    p2 = p2
    Users <- TwoUsers
    Procs <- TwoProcs
    Amounts = {1}
    Opening = 1
    Budget = 2
    Rate = 1
    Scale = 3
    Powers = {0, 1}
    Times = {0, 1, 2}
    MaxTime = 2
    MaxBoosts = 1
SYMMETRY Symmetric
CONSTRAINT Small
INVARIANTS
    StakesBacked
    EmittedOnce
    PaidWithinFundedUnboosted
