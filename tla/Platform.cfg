SPECIFICATION Spec
CONSTANTS
    Users = {u1, u2}
    Ids = {a, b}
    Chains = {c1, c2}
    FirstChain = c1
    Cap = 4
SYMMETRY Symmetry
INVARIANTS
    TypeOK
    
    ClaimsBounded
    
    BridgeBacked
    
    MemoryMatches
    ChannelsSafe
    LiquidationMirrored

    
CHECK_DEADLOCK FALSE
