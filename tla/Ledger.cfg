SPECIFICATION LedgerSpec
CONSTANTS
    a1 = a1
    a2 = a2
    t1 = t1
    t2 = t2
    t3 = t3
    Nobody = Nobody
    Accounts <- TwoAccounts
    Txs <- TwoTxs
    Amounts = {0, 1}
    Opening = {0, 1}
    MaxOps = 2
INVARIANTS
    
    NonNegative
    NoLostUpdate
PROPERTIES
    Atomic
    EveryTxEnds
