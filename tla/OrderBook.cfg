SPECIFICATION Spec
CONSTANTS
    t1 = t1
    t2 = t2
    c1 = c1
    c2 = c2
    Traders <- TwoTraders
    Clients <- TwoClients
    Prices <- OneOrTwo
    Quantities <- OneOrTwo
    Requests <- SomeRequests
    Ranges <- NoneOrOne
    MaxOrders = 3
    MaxListings = 2
CONSTRAINT Small
SYMMETRY Symmetry
CHECK_DEADLOCK FALSE
INVARIANTS
    BookConsistent
    NotCrossed
    TradesFair
    FillOrKill
PROPERTIES
    PriceTime
    FinalStays
