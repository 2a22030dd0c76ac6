SPECIFICATION Spec
CONSTANTS
    i1 = i1
    i2 = i2
    o1 = o1
    q1 = q1
    q2 = q2
    Positions <- TwoPositions
    Orders <- OneOrder
    Procs <- TwoProcs
    Pairs = {"BTC"}
    Sides = {"long", "short"}
    Sizes = {2}
    Collaterals = {1}
    Leverages = {2, 3}
    Prices = {2, 3}
    MaxLeverage = 2
    Cap = 3
SYMMETRY Symmetric
CONSTRAINT OneAtATime
INVARIANTS
    LiquidatedAtLoss
    ClosedRowIsTrue
    CapHoldsWithoutRace
PROPERTY
    SettledStays
