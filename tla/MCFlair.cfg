SPECIFICATION FlairSpec
CONSTANTS
    u1 = u1
    a1 = a1
    a2 = a2
    j1 = j1
    j2 = j2
    User = {u1}
    Address = {a1, a2}
    Flairs <- MCFlairs
    Burns <- MCBurns
    Run = {j1, j2}
    MaxPosts = 2
INVARIANTS
    FlairTypeOK
    ShownIsEarned
PROPERTIES
    PurchasesShown
CHECK_DEADLOCK FALSE
