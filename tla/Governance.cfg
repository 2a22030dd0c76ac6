SPECIFICATION Spec
CONSTANTS
    u1 = u1
    u2 = u2
    g1 = g1
    g2 = g2
    l1 = l1
    l2 = l2
    b1 = b1
    b2 = b2
    p1 = p1
    p2 = p2
    Users <- TwoUsers
    Gauges <- TwoGauges
    LockIds <- TwoLocks
    Bribes <- OneBribe
    Procs <- TwoProcs
    LockAmounts = {2}
    Durations = {1}
    Weights = {0, 2}
    BribeAmounts = {3}
    MaxTime = 1
    MaxTotal = 4
SYMMETRY Symmetric
CONSTRAINT SmallGovernance
INVARIANTS
    TotalExactWithoutRace
    ClaimedOnce
    PaidWithinFrozen
PROPERTY
    VoteFitsPower
