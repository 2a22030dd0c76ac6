SPECIFICATION Spec
CONSTANTS
    d1 = d1
    d2 = d2
    g1 = g1
    g2 = g2
    None = None
    Deposits <- TwoDeposits
    Erc20 <- OneErc20
    Undescribed <- OneErc20
    Scanners <- OneScanner
    Confirmations = 1
    Width = 1000000
    MaxHeight = 3
    MaxFaults = 0
PROPERTY
    EveryDepositCredited
