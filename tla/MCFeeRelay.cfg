SPECIFICATION Spec
CONSTANTS
    r1 = r1
    r2 = r2
    r3 = r3
    Free = Free
    Request = {r1, r2, r3}
    InitialLedger <- MCLedger
    Fees = {1, 2}
    MaxUtxo = 6
    PageLimit = 7
    TokenLowerCase = {TRUE, FALSE}
    DESIRED = 5
INVARIANTS
    NoDoubleReservation
    OffersOnlyUnspent
    RefreshNotLost
    IInv
PROPERTIES
    ReleasedOnlySpentOrCancelled
    StarvedStartsRefresh
    ImplementsLending
    InvalidOnlyForNewFee
SYMMETRY Symmetry
CHECK_DEADLOCK FALSE
