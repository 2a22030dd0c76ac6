SPECIFICATION Spec
CONSTANTS
    r1 = r1
    r2 = r2
    r3 = r3
    u1 = u1
    Nobody = Nobody
    Requests <- TwoRequests
    Users <- OneUser
    Amounts = {1, 2}
    Opening = 2
INVARIANT
    PaidIsDelivered
