SPECIFICATION Spec
CONSTANTS
    r1 = r1
    r2 = r2
    r3 = r3
    Free = Free
    Request = {r1, r2, r3}
    InitialLedger <- MCLedger
    Fees = {1}
    MaxUtxo = 6
    PageLimit = 7
    TokenLowerCase = {TRUE}
    DESIRED = 2
PROPERTIES
    ServesDesired
CHECK_DEADLOCK FALSE
