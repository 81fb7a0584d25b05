SPECIFICATION Spec
CONSTANTS
    r1 = r1
    r2 = r2
    r3 = r3
    r4 = r4
    Free = Free
    Request = {r1, r2, r3, r4}
    InitialLedger <- MCLedgerExact
    Fees = {1}
    MaxUtxo = 1
    PageLimit = 1
    TokenLowerCase = {TRUE, FALSE}
    DESIRED = 5
PROPERTIES
    CreateAnswered
CHECK_DEADLOCK FALSE
