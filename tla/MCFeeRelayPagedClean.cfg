SPECIFICATION Spec
CONSTANTS
    r1 = r1
    r2 = r2
    r3 = r3
    Free = Free
    Request = {r1, r2, r3}
    InitialLedger <- MCLedger
    Fees = {1}
    MaxUtxo = 6
    PageLimit = 2
    TokenLowerCase = {TRUE, FALSE}
    DESIRED = 5
PROPERTIES
    ReleasedOnlySpentOrCancelled
CHECK_DEADLOCK FALSE
